---- MODULE Spec2Model ----
(***************************************************************************)
(* Model of the Event Horizon tile server: the staged TIFF conversion      *)
(* pipeline (scripts/process-tiff.js, class TiffProcessor) and the         *)
(* background job / status tracking of src/server.js.                      *)
(*                                                                         *)
(* A path is a sequence of tokens; a directory token ends in "/" and a     *)
(* basename is cut so that the text '8bit_color' is a token of its own.    *)
(* The disk is the set of paths that exist.                                *)
(***************************************************************************)
EXTENDS Integers, Sequences, FiniteSets, TLC

VARIABLES
    disk,         \* set of paths existing on the file system
    run,          \* run[r]: the local state of one processTiff invocation
    invocations,  \* number of processTiff invocations started so far
    job,          \* job[id]: the local state of one processTiffAsync invocation
    snap,         \* snap[id]: the persisted status snapshot logs/<id>.json (<<>> = no file)
    hist,         \* hist[id]: the statuses written for id, in order (history)
    posted,       \* number of background jobs accepted by POST /api/process-tiff
    now,          \* logical clock read by new Date()
    lookup,       \* the GET /api/processing-status/:id request being served
    calc,         \* one analysis of engine output: projection text, statistics, color table
    ioFaults      \* whether IO operations can fail in this behaviour

vars == <<disk, run, invocations, job, snap, hist, posted, now, lookup, calc, ioFaults>>

pipelineVars == <<run, invocations>>
serverVars == <<job, snap, hist, posted, now, lookup>>
pureVars == <<calc, ioFaults>>

(***************************************************************************)
(* Bounds                                                                  *)
(***************************************************************************)
MaxInvocations == 1
MaxJobs == 1
MaxLookups == 1

(***************************************************************************)
(* Generic helpers: strings, paths, records                                *)
(***************************************************************************)
Range(s) == {s[i] : i \in DOMAIN s}

\* String.prototype.includes on tokenised text
Includes(text, token) == \E i \in DOMAIN text : text[i] = token

\* String.prototype.endsWith on tokenised text
EndsWith(text, token) == Len(text) > 0 /\ text[Len(text)] = token

IsPrefix(p, q) == Len(p) <= Len(q) /\ SubSeq(q, 1, Len(p)) = p

\* object spread {...a, ...b}
Merge(a, b) ==
    [k \in (DOMAIN a) \cup (DOMAIN b) |-> IF k \in DOMAIN b THEN b[k] ELSE a[k]]

\* a JS property read used as a condition: a missing key is undefined (falsy)
Truthy(obj, key) == key \in DOMAIN obj /\ obj[key] = TRUE

NoPath == <<>>
NoError == <<>>

(***************************************************************************)
(* File system (fs-extra)                                                  *)
(***************************************************************************)
pathExists(d, p) == p \in d

\* fs.remove: removes the path and, for a directory, everything below it;
\* a missing path is not an error
fsRemove(d, p) == {q \in d : ~IsPrefix(p, q)}

\* fs.ensureDir
ensureDir(d, p) == d \cup {p}

\* fs.emptyDir: removes the contents, keeps the directory
emptyDir(d, p) == {q \in d : ~IsPrefix(p, q) \/ q = p}

\* path.join(dir, name)
join(dir, name) == dir \o <<"/">> \o name

\* the name of the entry of `dir` that path q lies in or is
ChildName(dir, q) ==
    LET rest == SubSeq(q, Len(dir) + 2, Len(q))
        stop == IF \E i \in DOMAIN rest : rest[i] = "/"
                THEN CHOOSE i \in DOMAIN rest :
                         rest[i] = "/" /\ \A j \in 1..(i - 1) : rest[j] # "/"
                ELSE Len(rest) + 1
    IN SubSeq(rest, 1, stop - 1)

\* fs.readdir(dir): the names of the entries of dir
readdir(d, dir) ==
    {ChildName(dir, q) : q \in {p \in d : IsPrefix(dir \o <<"/">>, p)
                                          /\ Len(p) > Len(dir) + 1}}

\* fs.stat(p).isDirectory(): the output directory itself, or a path that
\* has entries below it
isDirectory(d, p) == \E q \in d : IsPrefix(p \o <<"/">>, q)

(***************************************************************************)
(* TiffProcessor: directories and derived paths                            *)
(***************************************************************************)
dataDir == <<"data/">>
tilesDir == <<"tiles/">>
logsDir == <<"logs/">>

Runs == {"A", "B"}

\* basenames (without extension) of the input files used as inputs
Filenames == { <<"sample">>, <<"viirs_", "8bit_color">>, <<"missing">> }

\* the inputs that exist in the data directory
ExistingInputs == { <<"sample">>, <<"viirs_", "8bit_color">> }

\* an input whose extension is none of .tif, .tiff, .geotiff
OddInput == <<"scan">>

InputPathOf(filename) ==
    dataDir \o filename \o <<IF filename = OddInput THEN ".dat" ELSE ".tif">>

\* path.extname(p).toLowerCase()
extname(p) == p[Len(p)]

\* path.basename(p)
basename(p) == SubSeq(p, 2, Len(p))

\* a layout in which every tileset is written to one shared directory
OutputDirShared(filename) == tilesDir \o <<"shared">>

\* path.join(this.tilesDir, filename)
OutputDirOf(filename) == tilesDir \o filename

reprojectedPath(filename) == dataDir \o filename \o <<"_3857", ".tif">>
vrtPath(filename) == dataDir \o filename \o <<"_optimized", ".vrt">>
tmpLog(filename) == dataDir \o filename \o <<"_log", ".tif">>
tmpScaled(filename) == dataDir \o filename \o <<"_scaled", ".tif">>
finalColorized(filename) == dataDir \o filename \o <<"_", "8bit_color", ".tif">>
colorTablePath == dataDir \o <<"viirs_log_optimized", ".txt">>
metadataPath(outputDir) == outputDir \o <<"/", "metadata", ".json">>

\* the tiles gdal2tiles writes as <outputDir>/<z>/<x>/<y>.png; two zoom
\* levels with one tile each stand for the range minZoom..maxZoom
tilePaths(outputDir) ==
    {outputDir \o <<"/", z, "/", "0", "/", "0", ".png">> : z \in {"0", "1"}}

\* the tiles a gdal2tiles child leaves in outputDir: all of them when it
\* exits 0, the first zoom level or nothing when it stops early
TilesWritten(d, outputDir, code, partial) ==
    IF code = 0 THEN d \cup {outputDir} \cup tilePaths(outputDir)
    ELSE IF partial
    THEN d \cup {outputDir, outputDir \o <<"/", "0", "/", "0", "/", "0", ".png">>}
    ELSE d

defaultOptions ==
    [minZoom |-> 0, maxZoom |-> 12, tileSize |-> 256, profile |-> "geodetic",
     resampling |-> "average", processes |-> 4, webViewer |-> FALSE]

\* the option objects callers pass to processTiff
OptionSets ==
    { [forceWebMercator |-> TRUE, maxZoom |-> 6],
      [forceWebMercator |-> FALSE],
      [profile |-> "mercator"] }

\* the `code` argument of a 'close' event is null when the child was ended
\* by a signal; KilledBySignal stands for that null
KilledBySignal == -1

ExitCodes == {0, 1, KilledBySignal}

\* `${code}` in a message
CodeText(code) == IF code = KilledBySignal THEN "null" ELSE ToString(code)

\* a close handler that takes every falsy code, null included, for success
SucceededFalsy(code) == code = 0 \/ code = KilledBySignal

\* the test `code === 0` of the close handlers
Succeeded(code) == code = 0

\* coordinate-system markers that the text printed by gdalinfo may contain
SrsTexts ==
    { {"EPSG:4326", "WGS 84"}, {"EPSG:3857", "Web Mercator"},
      {"WGS 84", "EPSG:3857"}, {} }

totalSteps == 11

IdleRun ==
    [pc |-> "idle", inputPath |-> NoPath, filename |-> <<>>, outputDir |-> NoPath,
     options |-> <<>>, config |-> defaultOptions, currentStep |-> 0, intermediateFiles |-> <<>>,
     profile |-> "", processPath |-> NoPath, optimizedPath |-> NoPath,
     colorizedPath |-> NoPath, error |-> NoError, raised |-> NoError,
     calls |-> <<>>, log |-> {}, tiffInfo |-> <<>>, metadata |-> <<>>,
     result |-> <<>>]

(***************************************************************************)
(* TiffProcessor.processTiff: one action per stage                         *)
(***************************************************************************)
ErrorOf(text, detail) == <<text, detail>>

\* the outcomes of a file-system operation or of reading a child's output:
\* TRUE is success; failure is possible in behaviours with IO faults
Outcomes == IF ioFaults THEN BOOLEAN ELSE {TRUE}

\* whether a child that fails leaves a partly written output behind
Leftovers == IF ioFaults THEN BOOLEAN ELSE {FALSE}

\* the removals of one pass over `files` that throw
FailingSets(files) == IF ioFaults THEN SUBSET Range(files) ELSE {{}}

Fail(r, step, err, d) ==
    /\ run' = [run EXCEPT ![r].pc = "catch", ![r].currentStep = step, ![r].error = err]
    /\ disk' = d

Call(tool, input, output) == [tool |-> tool, input |-> input, output |-> output]

\* a call together with the code its 'close' event carried
Closed(call, code) == Merge(call, [code |-> code])

\* a stage whose engine call `c` was made and rejected
FailCall(r, step, err, d, c) ==
    /\ run' = [run EXCEPT ![r].pc = "catch", ![r].currentStep = step, ![r].error = err,
                          ![r].calls = Append(@, c)]
    /\ disk' = d

\* processTiff entry: the options argument, config, inputPath, filename,
\* outputDir, empty artifact list
Started(filename, options) ==
    [IdleRun EXCEPT !.pc = "validate",
                    !.options = options,
                    !.config = Merge(defaultOptions, options),
                    !.inputPath = InputPathOf(filename),
                    !.filename = filename,
                    !.outputDir = OutputDirOf(filename)]

Invoke(r, filename, options) ==
    /\ run[r].pc \in {"idle", "done", "thrown"}
    /\ invocations < MaxInvocations
    /\ invocations' = invocations + 1
    /\ run' = [run EXCEPT ![r] = Started(filename, options)]
    /\ UNCHANGED <<disk, serverVars, pureVars>>

\* the warning of validateInputFile for an extension outside its list
ExtensionWarning(inputPath) ==
    IF extname(inputPath) \notin {".tif", ".tiff", ".geotiff"}
    THEN {"Unexpected file extension"} ELSE {}

\* a validation that rejects an unexpected extension
validateInputFileStrict(r) ==
    /\ run[r].pc = "validate"
    /\ \E statted \in Outcomes :
         IF ~pathExists(disk, run[r].inputPath)
         THEN Fail(r, run[r].currentStep + 1, ErrorOf("Input file does not exist: ", "inputPath"), disk)
         ELSE IF ~statted
         THEN Fail(r, run[r].currentStep + 1, ErrorOf("stat failed", "inputPath"), disk)
         ELSE IF ExtensionWarning(run[r].inputPath) # {}
         THEN Fail(r, run[r].currentStep + 1, ErrorOf("Unexpected file extension: ", "ext"), disk)
         ELSE /\ run' = [run EXCEPT ![r].pc = "prepare", ![r].currentStep = @ + 1]
              /\ disk' = disk
    /\ UNCHANGED <<invocations, serverVars, pureVars>>

\* Step 1: validateInputFile; fs.pathExists, then fs.stat (which rejects on
\* an IO error), then the extension test, which only warns
validateInputFile(r) ==
    /\ run[r].pc = "validate"
    /\ \E statted \in Outcomes :
         IF ~pathExists(disk, run[r].inputPath)
         THEN Fail(r, run[r].currentStep + 1, ErrorOf("Input file does not exist: ", "inputPath"), disk)
         ELSE IF ~statted
         THEN Fail(r, run[r].currentStep + 1, ErrorOf("stat failed", "inputPath"), disk)
         ELSE /\ run' = [run EXCEPT ![r].pc = "prepare", ![r].currentStep = @ + 1,
                           ![r].log = @ \cup ExtensionWarning(run[r].inputPath)]
              /\ disk' = disk
    /\ UNCHANGED <<invocations, serverVars, pureVars>>

\* cleanOutputDirectory: an emptyDir error is logged, never raised
cleanOutputDirectory(d, outputDir, emptied) ==
    IF pathExists(d, outputDir) /\ emptied THEN emptyDir(d, outputDir) ELSE d

\* Step 2: fs.ensureDir(outputDir), then cleanOutputDirectory(outputDir)
PrepareOutput(r) ==
    /\ run[r].pc = "prepare"
    /\ \E created \in Outcomes, emptied \in Outcomes :
         IF ~created
         THEN Fail(r, run[r].currentStep + 1, ErrorOf("ensureDir failed", "outputDir"), disk)
         ELSE /\ disk' = cleanOutputDirectory(ensureDir(disk, run[r].outputDir),
                                              run[r].outputDir, emptied)
              /\ run' = [run EXCEPT ![r].pc = "analyze", ![r].currentStep = @ + 1,
                           ![r].log = IF emptied THEN @
                                      ELSE @ \cup {"Could not clean output directory"}]
    /\ UNCHANGED <<invocations, serverVars, pureVars>>

\* the result object built from the parsed gdalinfo output
TiffInfoOf(inputPath) ==
    [size |-> "size", projection |-> "wkt", bounds |-> "bounds", bands |-> "bands",
     dataType |-> "type", geoTransform |-> "geoTransform", metadata |-> "metadata"]

\* Step 3: gdalinfo -json; a non-zero exit and unparsable output both reject
getTiffInfo(r) ==
    /\ run[r].pc = "analyze"
    /\ \E code \in ExitCodes, parsable \in Outcomes :
         LET c == Closed(Call("gdalinfo -json", run[r].inputPath, NoPath), code) IN
         IF ~Succeeded(code)
         THEN FailCall(r, run[r].currentStep + 1, ErrorOf("gdalinfo failed with code ", CodeText(code)), disk, c)
         ELSE IF ~parsable
         THEN FailCall(r, run[r].currentStep + 1, ErrorOf("Failed to parse gdalinfo output: ", "parseError"), disk, c)
         ELSE /\ run' = [run EXCEPT ![r].pc = "detect", ![r].currentStep = @ + 1,
                                    ![r].tiffInfo = TiffInfoOf(run[r].inputPath),
                                    ![r].calls = Append(@, c)]
              /\ disk' = disk
    /\ UNCHANGED <<invocations, serverVars, pureVars>>

\* a classification that has no default for an unrecognized system
ProfileOfTextStrict(output) ==
    IF "EPSG:4326" \in output \/ "WGS 84" \in output THEN "geodetic"
    ELSE IF "EPSG:3857" \in output \/ "Web Mercator" \in output THEN "mercator"
    ELSE "unknown"

\* the classification made in the close handler of detectProjectionProfile
ProfileOfText(output) ==
    IF "EPSG:4326" \in output \/ "WGS 84" \in output THEN "geodetic"
    ELSE IF "EPSG:3857" \in output \/ "Web Mercator" \in output THEN "mercator"
    ELSE "geodetic"

\* Step 4: detectProjectionProfile, then config.profile = profile
detectProjectionProfile(r) ==
    /\ run[r].pc = "detect"
    /\ \E code \in ExitCodes, output \in SrsTexts :
         LET c == Closed(Call("gdalinfo", run[r].inputPath, NoPath), code) IN
         IF ~Succeeded(code)
         THEN FailCall(r, run[r].currentStep + 1, ErrorOf("Failed to detect projection: ", CodeText(code)),
                       disk, c)
         ELSE /\ run' = [run EXCEPT ![r].pc = "reproject", ![r].currentStep = @ + 1,
                           ![r].profile = ProfileOfText(output),
                           ![r].config = Merge(@, [profile |-> ProfileOfText(output)]),
                           ![r].calls = Append(@, c)]
              /\ disk' = disk
    /\ UNCHANGED <<invocations, serverVars, pureVars>>

\* a step-5 condition that forgets the detected profile
NeedsReprojectionForced(profile, config) == Truthy(config, "forceWebMercator")

\* the condition of step 5
NeedsReprojection(profile, config) ==
    profile = "geodetic" /\ Truthy(config, "forceWebMercator")

\* an engine call can only succeed on an input that exists
CanSucceed(d, input, code) == code = 0 => pathExists(d, input)

\* the file a child process leaves behind: written on success, possibly
\* partly written when it fails
Written(d, output, code, partial) ==
    IF code = 0 \/ partial THEN d \cup {output} ELSE d

\* a step 5 whose skip branch does not count the skipped step
ReprojectUncounted(r) ==
    /\ run[r].pc = "reproject"
    /\ IF NeedsReprojection(run[r].profile, run[r].config)
       THEN \E code \in ExitCodes, partial \in Leftovers :
              LET out == reprojectedPath(run[r].filename)
                  c == Closed(Call("gdalwarp", run[r].inputPath, out), code) IN
              /\ CanSucceed(disk, run[r].inputPath, code)
              /\ IF ~Succeeded(code)
                 THEN FailCall(r, run[r].currentStep + 1, ErrorOf("Reprojection failed: ", "stderr"),
                               Written(disk, out, code, partial), c)
                 ELSE /\ disk' = Written(disk, out, code, partial)
                      /\ run' = [run EXCEPT ![r].pc = "optimize", ![r].currentStep = @ + 1,
                                   ![r].processPath = out,
                                   ![r].intermediateFiles = Append(@, out),
                                   ![r].config = Merge(@, [profile |-> "mercator"]),
                                   ![r].calls = Append(@, c)]
       ELSE /\ run' = [run EXCEPT ![r].pc = "optimize",
                         ![r].processPath = run[r].inputPath,
                         ![r].log = @ \cup {"Skipping reprojection"}]
            /\ disk' = disk
    /\ UNCHANGED <<invocations, serverVars, pureVars>>

\* Step 5: convertToWebMercator, or skip (currentStep++)
Reproject(r) ==
    /\ run[r].pc = "reproject"
    /\ IF NeedsReprojection(run[r].profile, run[r].config)
       THEN \E code \in ExitCodes, partial \in Leftovers :
              LET out == reprojectedPath(run[r].filename)
                  c == Closed(Call("gdalwarp", run[r].inputPath, out), code) IN
              /\ CanSucceed(disk, run[r].inputPath, code)
              /\ IF ~Succeeded(code)
                 THEN FailCall(r, run[r].currentStep + 1, ErrorOf("Reprojection failed: ", "stderr"),
                               Written(disk, out, code, partial), c)
                 ELSE /\ disk' = Written(disk, out, code, partial)
                      /\ run' = [run EXCEPT ![r].pc = "optimize", ![r].currentStep = @ + 1,
                                   ![r].processPath = out,
                                   ![r].intermediateFiles = Append(@, out),
                                   ![r].config = Merge(@, [profile |-> "mercator"]),
                                   ![r].calls = Append(@, c)]
       ELSE /\ run' = [run EXCEPT ![r].pc = "optimize", ![r].currentStep = @ + 1,
                         ![r].processPath = run[r].inputPath,
                         ![r].log = @ \cup {"Skipping reprojection"}]
            /\ disk' = disk
    /\ UNCHANGED <<invocations, serverVars, pureVars>>

\* Step 6: createOptimizedVRT(processPath, filename), registered as an artifact
createOptimizedVRT(r) ==
    /\ run[r].pc = "optimize"
    /\ \E code \in ExitCodes, partial \in Leftovers :
         LET out == vrtPath(run[r].filename)
             c == Closed(Call("gdal_translate -of VRT", run[r].processPath, out), code) IN
         /\ CanSucceed(disk, run[r].processPath, code)
         /\ IF ~Succeeded(code)
            THEN FailCall(r, run[r].currentStep + 1, ErrorOf("VRT creation failed: ", "stderr"),
                          Written(disk, out, code, partial), c)
            ELSE /\ disk' = Written(disk, out, code, partial)
                 /\ run' = [run EXCEPT ![r].pc = "col_stats", ![r].currentStep = @ + 1,
                              ![r].optimizedPath = out,
                              ![r].intermediateFiles =
                                  IF EndsWith(out, ".vrt") \/ out # run[r].processPath
                                  THEN Append(@, out) ELSE @,
                              ![r].calls = Append(@, c)]
    /\ UNCHANGED <<invocations, serverVars, pureVars>>

(***************************************************************************)
(* Step 7: convertTo8BitWithColor(optimizedPath, filename), one action     *)
(* per awaited call                                                        *)
(***************************************************************************)
\* analyzeTiffStatisticsAdvanced: gdalinfo -stats
ColorStats(r) ==
    /\ run[r].pc = "col_stats"
    /\ \E code \in ExitCodes :
         LET c == Closed(Call("gdalinfo -stats", run[r].optimizedPath, NoPath), code) IN
         IF ~Succeeded(code)
         THEN FailCall(r, run[r].currentStep + 1, ErrorOf("Failed to get TIFF statistics", ""), disk, c)
         ELSE /\ run' = [run EXCEPT ![r].pc = "col_log", ![r].currentStep = @ + 1,
                           ![r].calls = Append(@, c)]
              /\ disk' = disk
    /\ UNCHANGED <<invocations, serverVars, pureVars>>

\* gdal_calc.py: logarithmic transformation into tmpLog
ColorLog(r) ==
    /\ run[r].pc = "col_log"
    /\ \E code \in ExitCodes, partial \in Leftovers :
         LET out == tmpLog(run[r].filename)
             c == Closed(Call("gdal_calc.py", run[r].optimizedPath, out), code) IN
         /\ CanSucceed(disk, run[r].optimizedPath, code)
         /\ IF ~Succeeded(code)
            THEN FailCall(r, run[r].currentStep, ErrorOf("Log transformation failed: ", "stderr"),
                          Written(disk, out, code, partial), c)
            ELSE /\ disk' = Written(disk, out, code, partial)
                 /\ run' = [run EXCEPT ![r].pc = "col_scale",
                              ![r].calls = Append(@, c)]
    /\ UNCHANGED <<invocations, serverVars, pureVars>>

\* gdal_translate -scale: tmpLog into tmpScaled
ColorScale(r) ==
    /\ run[r].pc = "col_scale"
    /\ \E code \in ExitCodes, partial \in Leftovers :
         LET in == tmpLog(run[r].filename)
             out == tmpScaled(run[r].filename)
             c == Closed(Call("gdal_translate -scale", in, out), code) IN
         /\ CanSucceed(disk, in, code)
         /\ IF ~Succeeded(code)
            THEN FailCall(r, run[r].currentStep, ErrorOf("Scaling failed: ", "stderr"),
                          Written(disk, out, code, partial), c)
            ELSE /\ disk' = Written(disk, out, code, partial)
                 /\ run' = [run EXCEPT ![r].pc = "col_table",
                              ![r].calls = Append(@, c)]
    /\ UNCHANGED <<invocations, serverVars, pureVars>>

\* fs.writeFile(colorTablePath, colorTable)
ColorTable(r) ==
    /\ run[r].pc = "col_table"
    /\ \E written \in Outcomes :
         IF ~written
         THEN Fail(r, run[r].currentStep, ErrorOf("writeFile failed", "colorTablePath"), disk)
         ELSE /\ disk' = disk \cup {colorTablePath}
              /\ run' = [run EXCEPT ![r].pc = "col_relief"]
    /\ UNCHANGED <<invocations, serverVars, pureVars>>

\* gdaldem color-relief: tmpScaled and the color table into finalColorized
ColorRelief(r) ==
    /\ run[r].pc = "col_relief"
    /\ \E code \in ExitCodes, partial \in Leftovers :
         LET in == tmpScaled(run[r].filename)
             out == finalColorized(run[r].filename)
             c == Closed(Call("gdaldem color-relief", in, out), code) IN
         /\ code = 0 => pathExists(disk, in) /\ pathExists(disk, colorTablePath)
         /\ IF ~Succeeded(code)
            THEN FailCall(r, run[r].currentStep, ErrorOf("Color mapping failed: ", "stderr"),
                          Written(disk, out, code, partial), c)
            ELSE /\ disk' = Written(disk, out, code, partial)
                 /\ run' = [run EXCEPT ![r].pc = "col_rm",
                              ![r].calls = Append(@, c)]
    /\ UNCHANGED <<invocations, serverVars, pureVars>>

\* the three fs.remove calls that end convertTo8BitWithColor: the first
\* `failAt - 1` succeed, removal number failAt throws (0: none throws)
RemoveTemporaries(d, files, failAt) ==
    {q \in d : ~\E i \in DOMAIN files :
                   /\ (failAt = 0 \/ i < failAt)
                   /\ IsPrefix(files[i], q)}

\* removal of tmpLog, tmpScaled and the color table, then (processTiff line
\* 121) the colorized raster is pushed on intermediateFiles
ColorRemoveTemporaries(r) ==
    /\ run[r].pc = "col_rm"
    /\ \E failAt \in (IF ioFaults THEN 0..3 ELSE {0}) :
         LET temporaries == <<tmpLog(run[r].filename), tmpScaled(run[r].filename),
                              colorTablePath>>
             d == RemoveTemporaries(disk, temporaries, failAt) IN
         IF failAt # 0
         THEN Fail(r, run[r].currentStep, ErrorOf("remove failed", "temporary"), d)
         ELSE /\ disk' = d
              /\ run' = [run EXCEPT ![r].pc = "tiles",
                           ![r].colorizedPath = finalColorized(run[r].filename),
                           ![r].intermediateFiles =
                               Append(@, finalColorized(run[r].filename))]
    /\ UNCHANGED <<invocations, serverVars, pureVars>>

(***************************************************************************)
(* Steps 8 to 11 and the failure path                                      *)
(***************************************************************************)
\* the message generateTiles rejects with
TileErrorMessage(code) == ErrorOf("Tile generation failed with exit code: ", CodeText(code))

\* Step 8: generateTiles(colorizedPath, outputDir, config)
generateTiles(r) ==
    /\ run[r].pc = "tiles"
    /\ \E code \in ExitCodes, partial \in Leftovers :
         LET out == run[r].outputDir
             c == Closed(Merge(Call("gdal2tiles.py", run[r].colorizedPath, out),
                               [profile |-> run[r].config.profile]), code)
             d == TilesWritten(disk, out, code, partial) IN
         /\ CanSucceed(disk, run[r].colorizedPath, code)
         /\ IF ~Succeeded(code)
            THEN FailCall(r, run[r].currentStep + 1, TileErrorMessage(code), d, c)
            ELSE /\ disk' = d
                 /\ run' = [run EXCEPT ![r].pc = "metadata", ![r].currentStep = @ + 1,
                              ![r].calls = Append(@, c)]
    /\ UNCHANGED <<invocations, serverVars, pureVars>>

\* getGDALVersion: the text printed by `gdalinfo --version`, 'unknown' when
\* nothing was printed; its close handler resolves whatever the code is
getGDALVersion(code) == IF code = 0 THEN "GDAL 3" ELSE "unknown"

\* the metadata object built by createMetadata from {...config, ...tiffInfo}
MetadataOf(inputPath, filename, options, gdal) ==
    [name |-> filename,
     source |-> [filename |-> basename(inputPath), path |-> inputPath],
     tiles |-> [minZoom |-> options.minZoom, maxZoom |-> options.maxZoom,
                tileSize |-> options.tileSize, profile |-> options.profile,
                resampling |-> options.resampling],
     geographic |-> [bounds |-> options.bounds, projection |-> options.projection,
                     size |-> options.size],
     processing |-> [version |-> "1.0.0", gdal |-> gdal]]

\* Step 9: createMetadata; fs.stat and fs.writeJson reject on an IO error,
\* and writeJson cannot create the file in a directory that does not exist
createMetadata(r) ==
    /\ run[r].pc = "metadata"
    /\ \E code \in ExitCodes, written \in BOOLEAN :
         LET c == Closed(Call("gdalinfo --version", NoPath, NoPath), code) IN
         /\ written => pathExists(disk, run[r].outputDir)
         /\ ~written => (FALSE \in Outcomes \/ ~pathExists(disk, run[r].outputDir))
         /\ IF ~written
            THEN FailCall(r, run[r].currentStep + 1, ErrorOf("writeJson failed", "metadataPath"), disk, c)
            ELSE /\ disk' = disk \cup {metadataPath(run[r].outputDir)}
                 /\ run' = [run EXCEPT ![r].pc = "cleanup", ![r].currentStep = @ + 1,
                              ![r].calls = Append(@, c),
                              ![r].metadata =
                                  MetadataOf(run[r].inputPath, run[r].filename,
                                             Merge(run[r].config, run[r].tiffInfo),
                                             getGDALVersion(code))]
    /\ UNCHANGED <<invocations, serverVars, pureVars>>

\* a cleanup that spares nothing
RemovableAlways(file) == TRUE

\* the files cleanupIntermediateFiles tries to remove: all but those whose
\* path includes the text '8bit_color'
Removable(file) == ~Includes(file, "8bit_color")

\* cleanupIntermediateFiles(files): fs.remove per file; a removal that throws
\* (the files in `failing`) is logged and the loop goes on
cleanupIntermediateFiles(d, files, failing) ==
    {q \in d : ~\E i \in DOMAIN files :
                   /\ Removable(files[i])
                   /\ files[i] \notin failing
                   /\ IsPrefix(files[i], q)}

CleanupLog(files, failing) ==
    IF \E i \in DOMAIN files : Removable(files[i]) /\ files[i] \in failing
    THEN {"Could not remove"} ELSE {}

\* a Cleanup stage after which processTiff returns without verifying
CleanupThenDone(r) ==
    /\ run[r].pc = "cleanup"
    /\ \E failing \in FailingSets(run[r].intermediateFiles) :
         /\ disk' = cleanupIntermediateFiles(disk, run[r].intermediateFiles, failing)
         /\ run' = [run EXCEPT ![r].pc = "done", ![r].currentStep = @ + 1,
                      ![r].log = @ \cup CleanupLog(run[r].intermediateFiles, failing)]
    /\ UNCHANGED <<invocations, serverVars, pureVars>>

\* Step 10: Cleanup
Cleanup(r) ==
    /\ run[r].pc = "cleanup"
    /\ \E failing \in FailingSets(run[r].intermediateFiles) :
         /\ disk' = cleanupIntermediateFiles(disk, run[r].intermediateFiles, failing)
         /\ run' = [run EXCEPT ![r].pc = "verify", ![r].currentStep = @ + 1,
                      ![r].log = @ \cup CleanupLog(run[r].intermediateFiles, failing)]
    /\ UNCHANGED <<invocations, serverVars, pureVars>>

\* Number(item) for the directory names that pass the test /^\d+$/
NumberOf == [name \in {"0", "1", "01"} |-> IF name = "0" THEN 0 ELSE 1]

\* /^\d+$/.test(item)
IsDigits(name) == Len(name) = 1 /\ name[1] \in DOMAIN NumberOf

\* contents.filter(...).map(Number).sort((a, b) => a - b)
RECURSIVE SortedNumbers(_)
SortedNumbers(names) ==
    IF names = {} THEN <<>>
    ELSE LET least == CHOOSE n \in names :
                          \A m \in names : NumberOf[n[1]] <= NumberOf[m[1]]
         IN <<NumberOf[least[1]]>> \o SortedNumbers(names \ {least})

\* zoomTileCount of one zoom directory: the names ending in '.png' inside
\* every entry of zoomDir that is a directory
RECURSIVE CountTiles(_, _, _)
CountTiles(d, zoomDir, xDirs) ==
    IF xDirs = {} THEN 0
    ELSE LET xDir == CHOOSE x \in xDirs : TRUE
             yDir == join(zoomDir, xDir)
             here == IF isDirectory(d, yDir)
                     THEN Cardinality({tile \in readdir(d, yDir) : EndsWith(tile, ".png")})
                     ELSE 0
         IN here + CountTiles(d, zoomDir, xDirs \ {xDir})

\* a counting loop that assigns instead of adding: the count of the last
\* zoom level only
CountLastOnly(d, outputDir, zoomLevels, from, failAt) ==
    IF zoomLevels = <<>> \/ failAt # 0 THEN 0
    ELSE LET zoomDir == join(outputDir, <<ToString(zoomLevels[Len(zoomLevels)])>>) IN
         CountTiles(d, zoomDir, readdir(d, zoomDir))

\* the counting loop over zoomLevels[from..]: it ends at the first zoom
\* directory that cannot be read, either because of an IO error (the zoom
\* level number failAt - 1) or because <outputDir>/<zoom.toString()> is missing
RECURSIVE CountFrom(_, _, _, _, _)
CountFrom(d, outputDir, zoomLevels, from, failAt) ==
    IF from > Len(zoomLevels) THEN 0
    ELSE LET zoomDir == join(outputDir, <<ToString(zoomLevels[from])>>) IN
         IF failAt = from + 1 \/ ~isDirectory(d, zoomDir) THEN 0
         ELSE CountTiles(d, zoomDir, readdir(d, zoomDir))
              + CountFrom(d, outputDir, zoomLevels, from + 1, failAt)

\* whether the try block of verifyTileset ends in its catch
ScanFails(d, outputDir, zoomLevels, failAt) ==
    \/ failAt = 1
    \/ \E k \in DOMAIN zoomLevels :
         failAt = k + 1 \/ ~isDirectory(d, join(outputDir, <<ToString(zoomLevels[k])>>))

\* verifyTileset(outputDir); failAt names the read that throws: 0 none,
\* 1 the readdir of outputDir, k + 1 a read below the k-th zoom level
verifyTileset(d, outputDir, failAt) ==
    LET exists == pathExists(d, outputDir)
        zoomLevels ==
            IF exists /\ failAt # 1
            THEN SortedNumbers({item \in readdir(d, outputDir) :
                                   IsDigits(item) /\ isDirectory(d, join(outputDir, item))})
            ELSE <<>>
    IN [outputExists |-> exists,
        metadataExists |-> pathExists(d, metadataPath(outputDir)),
        tileCount |-> CountFrom(d, outputDir, zoomLevels, 1, failAt),
        zoomLevels |-> zoomLevels]

\* the zoom levels a scan of outputDir finds when no read throws
ZoomLevelsOf(d, outputDir) == verifyTileset(d, outputDir, 0).zoomLevels

\* a Verify stage without the try/catch around the scan
VerifyUncaught(r) ==
    /\ run[r].pc = "verify"
    /\ \E failAt \in 0..(Len(ZoomLevelsOf(disk, run[r].outputDir)) + 1) :
         LET verification == verifyTileset(disk, run[r].outputDir, failAt) IN
         IF pathExists(disk, run[r].outputDir)
            /\ ScanFails(disk, run[r].outputDir, verification.zoomLevels, failAt)
         THEN Fail(r, run[r].currentStep + 1, ErrorOf("scan failed", "outputDir"), disk)
         ELSE /\ disk' = disk
              /\ run' = [run EXCEPT ![r].pc = "done", ![r].currentStep = @ + 1,
                           ![r].result = [success |-> TRUE, verification |-> verification]]
    /\ UNCHANGED <<invocations, serverVars, pureVars>>

\* Step 11: Verify, then the result object is returned
Verify(r) ==
    /\ run[r].pc = "verify"
    /\ \E failAt \in 0..(Len(ZoomLevelsOf(disk, run[r].outputDir)) + 1) :
         LET verification == verifyTileset(disk, run[r].outputDir, failAt) IN
         run' = [run EXCEPT ![r].pc = "done", ![r].currentStep = @ + 1,
                   ![r].log =
                       IF ~verification.outputExists
                       THEN @ \cup {"Output directory not found"}
                       ELSE IF ScanFails(disk, run[r].outputDir,
                                         verification.zoomLevels, failAt)
                       THEN @ \cup {"Could not verify tile structure"}
                       ELSE @,
                   ![r].result =
                       [success |-> TRUE, inputFile |-> run[r].inputPath,
                        outputDir |-> run[r].outputDir, metadata |-> run[r].metadata,
                        verification |-> verification,
                        tileUrl |-> <<"/tiles/">> \o run[r].filename
                                      \o <<"/{z}/{x}/{y}.png">>]]
    /\ UNCHANGED <<disk, invocations, serverVars, pureVars>>

\* a failure path that lets the error of its own cleanup escape
RethrownCleanupFirst(error, cleanupError) ==
    IF cleanupError # NoError THEN cleanupError ELSE error

\* the error the catch block of processTiff throws after its own cleanup
Rethrown(error, cleanupError) == error

\* catch (error): cleanupIntermediateFiles, fs.remove(outputDir), throw error
FailurePath(r) ==
    /\ run[r].pc = "catch"
    /\ \E failing \in FailingSets(run[r].intermediateFiles), removed \in Outcomes :
         LET d == cleanupIntermediateFiles(disk, run[r].intermediateFiles, failing)
             cleanupError == IF removed THEN NoError
                             ELSE ErrorOf("remove failed", "outputDir") IN
         /\ disk' = IF removed THEN fsRemove(d, run[r].outputDir) ELSE d
         /\ run' = [run EXCEPT ![r].pc = "thrown",
                      ![r].raised = Rethrown(run[r].error, cleanupError),
                      ![r].log = @ \cup CleanupLog(run[r].intermediateFiles, failing)
                                   \cup (IF removed THEN {"Cleanup completed after error"}
                                         ELSE {"Could not clean up"})]
    /\ UNCHANGED <<invocations, serverVars, pureVars>>

Stage(r) ==
    \/ validateInputFile(r)
    \/ PrepareOutput(r)
    \/ getTiffInfo(r)
    \/ detectProjectionProfile(r)
    \/ Reproject(r)
    \/ createOptimizedVRT(r)
    \/ ColorStats(r)
    \/ ColorLog(r)
    \/ ColorScale(r)
    \/ ColorTable(r)
    \/ ColorRelief(r)
    \/ ColorRemoveTemporaries(r)
    \/ generateTiles(r)
    \/ createMetadata(r)
    \/ Cleanup(r)
    \/ Verify(r)
    \/ FailurePath(r)

(***************************************************************************)
(* src/server.js: background jobs and their status snapshots               *)
(***************************************************************************)
\* processing ids are issued in order; id 0 stands for an id that is never
\* issued (such as "abc123")
JobIds == 1..MaxJobs
LookupIds == 0..MaxJobs

NoSnapshot == <<>>

HasSnapshot(s, id) == DOMAIN s[id] # {}

IdleJob ==
    [pc |-> "none", filename |-> <<>>, inputPath |-> NoPath, outputDir |-> NoPath,
     options |-> <<>>, code |-> 0, errorLog |-> <<>>, error |-> NoError,
     caughtAt |-> "", calls |-> <<>>, metadata |-> <<>>]

\* request bodies of POST /api/process-tiff
RequestOptions == { <<>>, [maxZoom |-> 6] }

\* a status write that forgets the timestamp
updateProcessingStatusUnstamped(s, id, status, time) == [s EXCEPT ![id] = status]

\* updateProcessingStatus(statusFile, status): the file is overwritten with
\* {...status, timestamp}
updateProcessingStatus(s, id, status, time) ==
    [s EXCEPT ![id] = Merge(status, [timestamp |-> time])]

Written2History(h, id, status) ==
    [h EXCEPT ![id] = Append(@, [status |-> status.status, progress |-> status.progress])]

StartingStatus(time) ==
    [status |-> "starting", progress |-> 0,
     message |-> <<"Initializing TIFF processing...">>, startTime |-> time]

\* a processing snapshot that reports another percentage
ProcessingStatusHalf ==
    [status |-> "processing", progress |-> 50,
     message |-> <<"Running gdal2tiles conversion...">>]

ProcessingStatus ==
    [status |-> "processing", progress |-> 25,
     message |-> <<"Running gdal2tiles conversion...">>]

CompletedStatus(j, time) ==
    [status |-> "completed", progress |-> 100,
     message |-> <<"TIFF processing completed successfully">>,
     completedAt |-> time, outputDir |-> j.outputDir, metadata |-> j.metadata,
     tileUrl |-> <<"/tiles/">> \o j.filename \o <<"/{z}/{x}/{y}.png">>]

\* the failed snapshot written by the close handler for a non-zero exit
ExitFailedStatus(j, time) ==
    [status |-> "failed", progress |-> 0,
     message |-> <<"TIFF processing failed with exit code ", CodeText(j.code)>>,
     error |-> IF j.errorLog = <<>> THEN <<"Unknown error">> ELSE j.errorLog,
     failedAt |-> time]

\* the failed snapshot written by the catch block of processTiffAsync
CaughtFailedStatus(j, time) ==
    [status |-> "failed", progress |-> 0,
     message |-> <<"Processing error: ">> \o j.error,
     error |-> <<"stack: ">> \o j.error,
     failedAt |-> time]

\* the metadata object the close handler writes on success
JobMetadataOf(j) ==
    [name |-> j.filename, source |-> j.filename \o <<".tif">>,
     minZoom |-> IF "minZoom" \in DOMAIN j.options THEN j.options.minZoom ELSE 0,
     maxZoom |-> IF "maxZoom" \in DOMAIN j.options THEN j.options.maxZoom ELSE 12,
     bounds |-> "world", processingOptions |-> j.options, version |-> "1.0.0"]

\* POST /api/process-tiff: 404 when the input is missing; otherwise a new
\* processing id is issued, processTiffAsync is started without being awaited
\* and the response is sent
PostProcessTiff(filename, options) ==
    /\ posted < MaxJobs
    /\ IF ~pathExists(disk, InputPathOf(filename))
       THEN UNCHANGED <<job, posted>>
       ELSE /\ posted' = posted + 1
            /\ job' = [job EXCEPT ![posted + 1] =
                         [IdleJob EXCEPT !.pc = "starting", !.filename = filename,
                                         !.inputPath = InputPathOf(filename),
                                         !.outputDir = OutputDirOf(filename),
                                         !.options = options]]
    /\ UNCHANGED <<disk, pipelineVars, pureVars, snap, hist, now, lookup>>

\* the try block of processTiffAsync throws at the awaited call `at`
JobFail(id, at, err) ==
    job' = [job EXCEPT ![id].pc = "catch", ![id].error = err, ![id].caughtAt = at]

\* await updateProcessingStatus(statusFile, {status: 'starting', ...})
WriteStarting(id) ==
    /\ job[id].pc = "starting"
    /\ \E written \in BOOLEAN :
         IF written
         THEN /\ snap' = updateProcessingStatus(snap, id, StartingStatus(now), now)
              /\ hist' = Written2History(hist, id, StartingStatus(now))
              /\ now' = now + 1
              /\ job' = [job EXCEPT ![id].pc = "ensure"]
         ELSE /\ JobFail(id, "starting", <<"writeJson failed">>)
              /\ UNCHANGED <<snap, hist, now>>
    /\ UNCHANGED <<disk, pipelineVars, pureVars, posted, lookup>>

\* await fs.ensureDir(outputDir)
EnsureOutputDir(id) ==
    /\ job[id].pc = "ensure"
    /\ \E created \in BOOLEAN :
         IF created
         THEN /\ disk' = ensureDir(disk, job[id].outputDir)
              /\ job' = [job EXCEPT ![id].pc = "processing"]
         ELSE /\ JobFail(id, "ensure", <<"ensureDir failed">>)
              /\ disk' = disk
    /\ UNCHANGED <<pipelineVars, pureVars, snap, hist, posted, now, lookup>>

\* await updateProcessingStatus(statusFile, {status: 'processing', ...}),
\* then gdal2tiles.py is spawned on the input file and the handlers are set
WriteProcessing(id) ==
    /\ job[id].pc = "processing"
    /\ \E written \in BOOLEAN :
         IF written
         THEN /\ snap' = updateProcessingStatus(snap, id, ProcessingStatus, now)
              /\ hist' = Written2History(hist, id, ProcessingStatus)
              /\ now' = now + 1
              /\ job' = [job EXCEPT ![id].pc = "running",
                           ![id].calls = Append(@,
                               Merge(Call("gdal2tiles.py", job[id].inputPath,
                                          job[id].outputDir),
                                     [profile |-> "mercator"]))]
         ELSE /\ JobFail(id, "processing", <<"writeJson failed">>)
              /\ UNCHANGED <<snap, hist, now>>
    /\ UNCHANGED <<disk, pipelineVars, pureVars, posted, lookup>>

\* a child whose 'close' event reaches the handler again after the handler
\* has written its snapshot
ChildCloseAgain(id) ==
    /\ job[id].pc \in {"running", "end"}
    /\ \E code \in ExitCodes, partial \in BOOLEAN, errorLog \in {<<>>, <<"stderr">>} :
         /\ (code = 0) => (errorLog = <<>>)
         /\ CanSucceed(disk, job[id].inputPath, code)
         /\ disk' = TilesWritten(disk, job[id].outputDir, code, partial)
         /\ job' = [job EXCEPT ![id].pc = IF Succeeded(code) THEN "closed_ok" ELSE "closed_failed",
                               ![id].code = code, ![id].errorLog = errorLog]
    /\ UNCHANGED <<pipelineVars, pureVars, snap, hist, posted, now, lookup>>

\* the child closes: gdal2tiles.on('close', async (code) => ...) starts; the
\* collected stderr text is read on the failure branch only
ChildClose(id) ==
    /\ job[id].pc = "running"
    /\ \E code \in ExitCodes, partial \in BOOLEAN, errorLog \in {<<>>, <<"stderr">>} :
         /\ (code = 0) => (errorLog = <<>>)
         /\ CanSucceed(disk, job[id].inputPath, code)
         /\ disk' = TilesWritten(disk, job[id].outputDir, code, partial)
         /\ job' = [job EXCEPT ![id].pc = IF Succeeded(code) THEN "closed_ok" ELSE "closed_failed",
                               ![id].code = code, ![id].errorLog = errorLog]
    /\ UNCHANGED <<pipelineVars, pureVars, snap, hist, posted, now, lookup>>

\* close handler, code 0: await fs.writeJson(metadata.json); a rejection here
\* is not caught and ends the handler
WriteJobMetadata(id) ==
    /\ job[id].pc = "closed_ok"
    /\ \E written \in BOOLEAN :
         /\ written => pathExists(disk, job[id].outputDir)
         /\ IF written
            THEN /\ disk' = disk \cup {metadataPath(job[id].outputDir)}
                 /\ job' = [job EXCEPT ![id].pc = "completing",
                                       ![id].metadata = JobMetadataOf(job[id])]
            ELSE /\ disk' = disk
                 /\ job' = [job EXCEPT ![id].pc = "rejected"]
    /\ UNCHANGED <<pipelineVars, pureVars, snap, hist, posted, now, lookup>>

\* close handler, code 0: await updateProcessingStatus({status: 'completed', ...})
WriteCompleted(id) ==
    /\ job[id].pc = "completing"
    /\ \E written \in BOOLEAN :
         IF written
         THEN /\ snap' = updateProcessingStatus(snap, id, CompletedStatus(job[id], now), now)
              /\ hist' = Written2History(hist, id, CompletedStatus(job[id], now))
              /\ now' = now + 1
              /\ job' = [job EXCEPT ![id].pc = "end"]
         ELSE /\ job' = [job EXCEPT ![id].pc = "rejected"]
              /\ UNCHANGED <<snap, hist, now>>
    /\ UNCHANGED <<disk, pipelineVars, pureVars, posted, lookup>>

\* close handler, code !== 0: await updateProcessingStatus({status: 'failed', ...})
WriteExitFailed(id) ==
    /\ job[id].pc = "closed_failed"
    /\ \E written \in BOOLEAN :
         IF written
         THEN /\ snap' = updateProcessingStatus(snap, id, ExitFailedStatus(job[id], now), now)
              /\ hist' = Written2History(hist, id, ExitFailedStatus(job[id], now))
              /\ now' = now + 1
              /\ job' = [job EXCEPT ![id].pc = "end"]
         ELSE /\ job' = [job EXCEPT ![id].pc = "rejected"]
              /\ UNCHANGED <<snap, hist, now>>
    /\ UNCHANGED <<disk, pipelineVars, pureVars, posted, lookup>>

\* catch (error) of processTiffAsync: await updateProcessingStatus({status:
\* 'failed', ...}); when this write fails too, processTiffAsync rejects
WriteCaughtFailed(id) ==
    /\ job[id].pc = "catch"
    /\ \E written \in BOOLEAN :
         IF written
         THEN /\ snap' = updateProcessingStatus(snap, id, CaughtFailedStatus(job[id], now), now)
              /\ hist' = Written2History(hist, id, CaughtFailedStatus(job[id], now))
              /\ now' = now + 1
              /\ job' = [job EXCEPT ![id].pc = "end"]
         ELSE /\ job' = [job EXCEPT ![id].pc = "rejected"]
              /\ UNCHANGED <<snap, hist, now>>
    /\ UNCHANGED <<disk, pipelineVars, pureVars, posted, lookup>>

\* a lookup that answers a missing snapshot with a default success object
NotFoundResponseDefault(id) ==
    [code |-> 200,
     body |-> [status |-> "success", processingId |-> id, progress |-> 0]]

\* the response of GET /api/processing-status/:id
NotFoundResponse(id) ==
    [code |-> 404,
     body |-> [status |-> "error", error |-> "Processing ID not found",
               processingId |-> id]]

FoundResponse(id, status) ==
    [code |-> 200, body |-> Merge([status |-> "success", processingId |-> id], status)]

\* GET /api/processing-status/:id, up to `await fs.pathExists(statusFile)`
StatusLookup(id) ==
    /\ lookup.pc = "idle"
    /\ lookup.count < MaxLookups
    /\ lookup' = IF HasSnapshot(snap, id)
                 THEN [pc |-> "read", id |-> id, written |-> Len(hist[id]) > 0,
                       count |-> lookup.count + 1, response |-> <<>>]
                 ELSE [pc |-> "idle", id |-> id, written |-> Len(hist[id]) > 0,
                       count |-> lookup.count + 1, response |-> NotFoundResponse(id)]
    /\ UNCHANGED <<disk, pipelineVars, pureVars, job, snap, hist, posted, now>>

\* GET /api/processing-status/:id, `await fs.readJson(statusFile)` and res.json
StatusRead ==
    /\ lookup.pc = "read"
    /\ lookup' = [lookup EXCEPT !.pc = "idle",
                                !.response = FoundResponse(lookup.id, snap[lookup.id])]
    /\ UNCHANGED <<disk, pipelineVars, pureVars, job, snap, hist, posted, now>>

\* the response of the catch block of GET /api/processing-status/:id
ServerErrorResponse ==
    [code |-> 500,
     body |-> [status |-> "error", error |-> "Failed to read processing status"]]

\* the positions at which a job has an updateProcessingStatus in flight that
\* overwrites an existing snapshot
OverwritePositions == {"processing", "completing", "closed_failed", "catch"}

\* `await fs.readJson(statusFile)` while fs.writeJson of the same file is in
\* flight: writeJson truncates the file and then writes the text, so the
\* read can see an empty or partly written text, which JSON.parse rejects
StatusReadTorn ==
    /\ lookup.pc = "read"
    /\ lookup.id \in JobIds
    /\ job[lookup.id].pc \in OverwritePositions
    /\ lookup' = [lookup EXCEPT !.pc = "idle", !.response = ServerErrorResponse]
    /\ UNCHANGED <<disk, pipelineVars, pureVars, job, snap, hist, posted, now>>

\* availableTilesets of GET /api/tilesets: one entry per directory found in
\* the tiles directory, whatever it holds
AvailableTilesets(d) ==
    {[id |-> f, tileUrl |-> <<"/tiles/">> \o f \o <<"/{z}/{x}/{y}.png">>] :
         f \in {g \in Filenames : pathExists(d, OutputDirOf(g))}}

TilesetsResponse(d) ==
    [code |-> 200,
     body |-> [status |-> "success", count |-> Cardinality(AvailableTilesets(d)),
               tilesets |-> AvailableTilesets(d)]]

TilesetsErrorResponse ==
    [code |-> 500, body |-> [status |-> "error", error |-> "Failed to read tilesets"]]

\* GET /api/tilesets: fs.readdir of the tiles directory and fs.stat of each
\* entry; a rejection of either is answered with 500
GetTilesets ==
    /\ lookup.pc = "idle"
    /\ lookup.count < MaxLookups
    /\ \E listed \in Outcomes :
         lookup' = [lookup EXCEPT !.count = @ + 1, !.id = 0, !.written = FALSE,
                                  !.response = IF listed THEN TilesetsResponse(disk)
                                               ELSE TilesetsErrorResponse]
    /\ UNCHANGED <<disk, pipelineVars, pureVars, job, snap, hist, posted, now>>

\* spawn('gdal2tiles.py', ...) cannot start the child: the child emits
\* 'error', for which no listener is registered, and never 'close' to the
\* handler of this job; the exception is uncaught and no snapshot is written
SpawnError(id) ==
    /\ job[id].pc = "running"
    /\ job' = [job EXCEPT ![id].pc = "crashed"]
    /\ UNCHANGED <<disk, pipelineVars, pureVars, snap, hist, posted, now, lookup>>

JobStep(id) ==
    \/ WriteStarting(id)
    \/ EnsureOutputDir(id)
    \/ WriteProcessing(id)
    \/ ChildClose(id)
    \/ WriteJobMetadata(id)
    \/ WriteCompleted(id)
    \/ WriteExitFailed(id)
    \/ WriteCaughtFailed(id)

(***************************************************************************)
(* Statistics, percentiles and the color table of convertTo8BitWithColor.  *)
(* A raster value is an integer number of thousandths; a percentile is an  *)
(* integer number of millionths, so that the products with 0.01 ... 0.999  *)
(* are exact.  Floating-point rounding is not modelled.                    *)
(***************************************************************************)
\* output.match(/Minimum=([-\d.]+)/) and the like: no match, or the number
\* parseFloat reads from the matched text (in thousandths)
NoMatch == [matched |-> FALSE, value |-> 0]
Match(value) == [matched |-> TRUE, value |-> value]

\* stands for the value NaN: what parseFloat returns for a capture without
\* digits, such as the '-' that the pattern [-\d.]+ captures from '-nan'
NaN == -2000000000

\* an arithmetic result: NaN as soon as one operand is NaN
OrNaN(operands, value) == IF NaN \in operands THEN NaN ELSE value

\* the texts gdalinfo -stats may print, as far as the four patterns see them
StatsOutputs ==
    [minMatch : {NoMatch, Match(NaN), Match(-5000), Match(3000)},
     maxMatch : {NoMatch, Match(NaN), Match(-2000), Match(100000), Match(400000)},
     meanMatch : {NoMatch, Match(NaN), Match(-1000), Match(500)},
     stdDevMatch : {NoMatch, Match(NaN), Match(-2000), Match(0), Match(300)}]

\* basicStats: a field without a match takes its default 0, 255, 128, 50
BasicStatsOf(output) ==
    [min |-> IF output.minMatch.matched THEN output.minMatch.value ELSE 0,
     max |-> IF output.maxMatch.matched THEN output.maxMatch.value ELSE 255000,
     mean |-> IF output.meanMatch.matched THEN output.meanMatch.value ELSE 128000,
     stdDev |-> IF output.stdDevMatch.matched THEN output.stdDevMatch.value ELSE 50000]

\* Math.min
MathMin(a, b) == OrNaN({a, b}, IF a <= b THEN a ELSE b)

\* the test that selects the branch for VIIRS light pollution data; a
\* comparison with NaN is false
IsTailPattern(stats) ==
    /\ stats.max # NaN /\ stats.max > 100000
    /\ stats.mean # NaN /\ stats.mean < 1000

\* a tail branch whose first threshold lies three deviations below the mean
TailPercentilesBelow(stats) ==
    LET OfMax(k) == OrNaN({stats.max}, stats.max * k)
        Above(k) == OrNaN({stats.mean, stats.stdDev},
                          (stats.mean + k * stats.stdDev) * 1000)
    IN [percentile95 |-> MathMin(OfMax(10), Above(-3)),
        percentile98 |-> MathMin(OfMax(50), Above(4)),
        percentile99 |-> MathMin(OfMax(100), Above(5)),
        percentile99_9 |-> MathMin(OfMax(200), Above(6))]

\* the branch for VIIRS light pollution data:
\* Math.min(max * 0.01, mean + 3 * stdDev) ...
TailPercentiles(stats) ==
    LET OfMax(k) == OrNaN({stats.max}, stats.max * k)
        Above(k) == OrNaN({stats.mean, stats.stdDev},
                          (stats.mean + k * stats.stdDev) * 1000)
    IN [percentile95 |-> MathMin(OfMax(10), Above(3)),
        percentile98 |-> MathMin(OfMax(50), Above(4)),
        percentile99 |-> MathMin(OfMax(100), Above(5)),
        percentile99_9 |-> MathMin(OfMax(200), Above(6))]

\* a standard branch that measures the thresholds down from the maximum
LinearPercentilesFromMax(stats) ==
    LET At(f) == OrNaN({stats.min, stats.max},
                       stats.max * 1000 - (stats.max - stats.min) * f)
    IN [percentile95 |-> At(950), percentile98 |-> At(980),
        percentile99 |-> At(990), percentile99_9 |-> At(999)]

\* the standard branch: min + (max - min) * 0.95 ...
LinearPercentiles(stats) ==
    LET At(f) == OrNaN({stats.min, stats.max},
                       stats.min * 1000 + (stats.max - stats.min) * f)
    IN [percentile95 |-> At(950), percentile98 |-> At(980),
        percentile99 |-> At(990), percentile99_9 |-> At(999)]

\* calculatePercentiles(inputPath, basicStats): stats = {...basicStats} plus
\* the four thresholds
calculatePercentiles(basicStats) ==
    IF IsTailPattern(basicStats)
    THEN Merge(basicStats, TailPercentiles(basicStats))
    ELSE Merge(basicStats, LinearPercentiles(basicStats))

\* the stops of the color table text: value R G B Alpha
ColorStops ==
    << <<0, 0, 0, 0, 255>>, <<50, 0, 0, 10, 255>>, <<100, 0, 0, 40, 255>>,
       <<120, 0, 80, 160, 255>>, <<150, 0, 140, 255, 255>>,
       <<170, 100, 255, 180, 255>>, <<180, 180, 255, 100, 255>>,
       <<200, 255, 255, 0, 255>>,
       <<220, 255, 80, 0, 255>>, <<230, 255, 0, 0, 255>>,
       <<240, 255, 160, 255, 255>>, <<250, 255, 255, 255, 255>>,
       <<255, 255, 255, 255, 255>> >>

\* a color table whose sixth stop is put at the 95th percentile (in units)
ColorTableAnchored(perc) ==
    [designedFor |-> perc,
     stops |-> [ColorStops EXCEPT ![6] = [@ EXCEPT ![1] = perc \div 1000000]]]

\* the color table text: `perc` appears in a comment line only
ColorTableOf(perc) == [designedFor |-> perc, stops |-> ColorStops]

IdleCalc ==
    [pc |-> "idle", srs |-> {}, profile |-> "", output |-> <<>>, stats |-> <<>>,
     colorTable |-> <<>>]

\* detectProjectionProfile, close handler with code 0: the text is classified
ClassifyProjection ==
    /\ calc.pc = "detect"
    /\ calc' = [calc EXCEPT !.pc = "stats", !.profile = ProfileOfText(calc.srs)]
    /\ UNCHANGED <<disk, pipelineVars, serverVars, ioFaults>>

\* analyzeTiffStatisticsAdvanced, close handler with code 0: the four
\* matches, basicStats, then calculatePercentiles
AnalyzeStatistics ==
    /\ calc.pc = "stats"
    /\ calc' = [calc EXCEPT !.pc = "percentiles",
                            !.stats = calculatePercentiles(BasicStatsOf(calc.output))]
    /\ UNCHANGED <<disk, pipelineVars, serverVars, ioFaults>>

\* convertTo8BitWithColor: perc = stats.percentile95, the color table text
WriteColorTable ==
    /\ calc.pc = "percentiles"
    /\ calc' = [calc EXCEPT !.pc = "table",
                            !.colorTable = ColorTableOf(calc.stats.percentile95)]
    /\ UNCHANGED <<disk, pipelineVars, serverVars, ioFaults>>

EmptyLookup == [pc |-> "idle", id |-> 0, written |-> FALSE, count |-> 0, response |-> <<>>]

\* the tileset an earlier successful conversion of sample.tif has left
StaleTileset ==
    {OutputDirOf(<<"sample">>), metadataPath(OutputDirOf(<<"sample">>))}
        \cup tilePaths(OutputDirOf(<<"sample">>))

\* the data and tiles directories at start: the inputs, with or without the
\* tileset of an earlier conversion
InitialDisks ==
    { {InputPathOf(f) : f \in ExistingInputs},
      {InputPathOf(f) : f \in ExistingInputs} \cup StaleTileset }

\* no processTiff invocation, no background job and no lookup has started
NothingStarted ==
    /\ run = [r \in Runs |-> IdleRun]
    /\ invocations = 0
    /\ job = [id \in JobIds |-> IdleJob]
    /\ snap = [id \in LookupIds |-> NoSnapshot]
    /\ hist = [id \in LookupIds |-> <<>>]
    /\ posted = 0
    /\ now = 0
    /\ lookup = EmptyLookup

\* the server starts on a data directory without tilesets
Init ==
    /\ disk = {InputPathOf(f) : f \in ExistingInputs}
    /\ NothingStarted
    /\ calc = IdleCalc
    /\ ioFaults = TRUE

\* the command line starts with or without the tileset of an earlier run
InitPipeline ==
    /\ disk \in InitialDisks
    /\ NothingStarted
    /\ calc = IdleCalc
    /\ ioFaults = TRUE

\* one processTiff invocation at a time (the command line use)
Next ==
    \/ \E f \in Filenames, o \in OptionSets : Invoke("A", f, o)
    \/ Stage("A")

Spec == InitPipeline /\ [][Next]_vars

\* the server: background jobs and status lookups, interleaved
NextServer ==
    \/ \E f \in Filenames, o \in RequestOptions : PostProcessTiff(f, o)
    \/ \E id \in JobIds : JobStep(id)
    \/ \E id \in LookupIds : StatusLookup(id)
    \/ StatusRead

SpecServer == Init /\ [][NextServer]_vars

\* processTiff started once per run, for runs that are in flight together
InvokeOnce(r, filename, options) ==
    /\ run[r].pc = "idle"
    /\ run' = [run EXCEPT ![r] = Started(filename, options)]
    /\ UNCHANGED <<disk, invocations, serverVars, pureVars>>

\* two processTiff invocations in flight at once (two processes started on
\* the same data directory), their awaited steps interleaved
NextConcurrent ==
    \/ \E r \in Runs, f \in ExistingInputs : InvokeOnce(r, f, <<>>)
    \/ \E r \in Runs : Stage(r)

\* the concurrent runs are explored without IO faults: engine exit codes
\* and scan errors remain free
InitConcurrent ==
    /\ disk = {InputPathOf(f) : f \in ExistingInputs}
    /\ NothingStarted
    /\ calc = IdleCalc
    /\ ioFaults = FALSE

SpecConcurrent == InitConcurrent /\ [][NextConcurrent]_vars

\* the analysis of every text gdalinfo may print about the coordinate
\* system and of every output gdalinfo -stats may print
InitStats ==
    /\ disk = {InputPathOf(f) : f \in ExistingInputs}
    /\ NothingStarted
    /\ \E srs \in SrsTexts, output \in StatsOutputs :
         calc = [IdleCalc EXCEPT !.pc = "detect", !.srs = srs, !.output = output]
    /\ ioFaults = TRUE

NextStats == ClassifyProjection \/ AnalyzeStatistics \/ WriteColorTable

SpecStats == InitStats /\ [][NextStats]_vars

\* an output directory with leftovers that gdal2tiles.py did not write: next
\* to the earlier tileset, a zoom directory named with a leading zero that
\* holds two tiles
LeftoverTileset ==
    StaleTileset
        \cup {OutputDirOf(<<"sample">>) \o <<"/", "01", "/", "0", "/", y, ".png">> :
                  y \in {"0", "1"}}

\* the tileset of an earlier successful conversion of an input that has
\* been removed from the data directory since
OrphanTileset ==
    {OutputDirOf(<<"missing">>), metadataPath(OutputDirOf(<<"missing">>))}
        \cup tilePaths(OutputDirOf(<<"missing">>))

\* the command line on unusual inputs: an input with the extension .dat, a
\* missing input, an output directory with leftovers, the tileset of an
\* input that is gone
InitUnusual ==
    /\ \E leftovers \in {{}, LeftoverTileset, OrphanTileset} :
         disk = {InputPathOf(f) : f \in ExistingInputs \cup {OddInput}} \cup leftovers
    /\ NothingStarted
    /\ calc = IdleCalc
    /\ ioFaults = TRUE

NextUnusual ==
    \/ \E f \in {<<"sample">>, OddInput, <<"missing">>} : Invoke("A", f, <<>>)
    \/ Stage("A")

SpecUnusual == InitUnusual /\ [][NextUnusual]_vars

\* the server starts on a data directory that holds the tileset of an
\* earlier conversion of sample.tif
InitRerun ==
    /\ disk = {InputPathOf(f) : f \in ExistingInputs} \cup StaleTileset
    /\ NothingStarted
    /\ calc = IdleCalc
    /\ ioFaults = TRUE

\* the background jobs alone, without status lookups
NextRerun ==
    \/ \E f \in Filenames, o \in RequestOptions : PostProcessTiff(f, o)
    \/ \E id \in JobIds : JobStep(id)

SpecRerun == InitRerun /\ [][NextRerun]_vars

\* the server with lookups that may overlap a snapshot overwrite
NextOverwrite == NextServer \/ StatusReadTorn

SpecOverwrite == Init /\ [][NextOverwrite]_vars

\* the server with background jobs and requests for the tileset list
NextTilesets ==
    \/ \E f \in Filenames, o \in RequestOptions : PostProcessTiff(f, o)
    \/ \E id \in JobIds : JobStep(id)
    \/ GetTilesets

SpecTilesets == Init /\ [][NextTilesets]_vars

\* the background jobs under fair scheduling: every awaited operation of a
\* job ends, and the child of a running job closes or fails to start
NextJobs ==
    \/ \E f \in Filenames, o \in RequestOptions : PostProcessTiff(f, o)
    \/ \E id \in JobIds : JobStep(id) \/ SpawnError(id)

SpecJobsFair ==
    Init /\ [][NextJobs]_vars /\ \A id \in JobIds : WF_vars(JobStep(id) \/ SpawnError(id))

(***************************************************************************)
(* Properties of the pipeline (specification Spec)                         *)
(***************************************************************************)
\* the reprojected raster of run r, when the Reproject stage produced one
ReprojectedOf(r) ==
    IF run[r].processPath # NoPath /\ run[r].processPath # run[r].inputPath
    THEN {run[r].processPath} ELSE {}

\* the transient artifacts run r registered: the reprojected raster and the
\* optimized intermediate
TransientOf(r) ==
    {f \in Range(run[r].intermediateFiles) :
        f \in ReprojectedOf(r) \/ f = run[r].optimizedPath}

\* the retain artifact run r registered: the colorized raster
RetainOf(r) ==
    {f \in Range(run[r].intermediateFiles) : f = run[r].colorizedPath}

\* no removal attempted by the Cleanup stage or by the failure path of run r
\* reported an error
NoRemovalError(r) == run[r].log \cap {"Could not remove", "Could not clean up"} = {}

\* C1: whenever processTiff has returned successfully, no transient artifact
\* registered during the run exists on disk, for every input filename.  The
\* claim also covers runs in which a removal reported an error; it is stated
\* here for the runs in which none did, where it is weakest.
C1_NoTransientAfterSuccess ==
    \A r \in Runs :
        (run[r].pc = "done" /\ NoRemovalError(r)) =>
            \A f \in TransientOf(r) : ~pathExists(disk, f)

\* C3: if the Tile stage failed, then when processTiff throws the output
\* directory does not exist and no transient artifact of the run's artifact
\* list remains on disk (stated for the runs in which every removal of the
\* failure path succeeded).
C3_TileFailureAtomicity ==
    \A r \in Runs :
        (run[r].pc = "thrown" /\ run[r].currentStep = 8 /\ NoRemovalError(r)) =>
            /\ ~pathExists(disk, run[r].outputDir)
            /\ \A f \in TransientOf(r) : ~pathExists(disk, f)

\* C4: after processTiff throws, no artifact the run registered remains on
\* disk, neither a transient one nor the retain-tagged colorized raster
\* (stated for the runs in which every removal of the failure path succeeded,
\* for an input whose name does not contain the text '8bit_color').
C4_FailurePurgesAllArtifacts ==
    \A r \in Runs :
        (/\ run[r].pc = "thrown"
         /\ NoRemovalError(r)
         /\ ~Includes(run[r].filename, "8bit_color")) =>
            \A f \in TransientOf(r) \cup RetainOf(r) : ~pathExists(disk, f)

\* C5: whenever a stage fails, the error processTiff raises is the error of
\* that stage, also when the purge or the removal of the output directory in
\* the failure path fails.
C5_OriginalErrorRethrown ==
    \A r \in Runs :
        run[r].pc = "thrown" =>
            /\ run[r].error # NoError
            /\ run[r].raised = run[r].error
            /\ run[r].raised # ErrorOf("remove failed", "outputDir")

\* C5 witness: a run has thrown after a failure path in which a removal of an
\* artifact and the removal of the output directory both failed.
C5_Witness ==
    \E r \in Runs :
        /\ run[r].pc = "thrown"
        /\ {"Could not clean up", "Could not remove"} \subseteq run[r].log
        /\ run[r].raised = TileErrorMessage(1)

\* the path a file was derived from by the engine calls made after the
\* Reproject stage: follows each call from its output back to its input
RECURSIVE OriginOf(_, _)
OriginOf(calls, p) ==
    LET producers == {i \in DOMAIN calls :
                         /\ calls[i].output = p
                         /\ calls[i].tool # "gdalwarp"} IN
    IF p = NoPath \/ producers = {} THEN p
    ELSE OriginOf(calls, calls[CHOOSE i \in producers : TRUE].input)

\* the engine calls of the Optimize, NormalizeAndColorize and Tile stages
DownstreamTools ==
    {"gdal_translate -of VRT", "gdalinfo -stats", "gdal_calc.py",
     "gdal_translate -scale", "gdaldem color-relief", "gdal2tiles.py"}

ReprojectionCalled(r) == \E i \in DOMAIN run[r].calls : run[r].calls[i].tool = "gdalwarp"

\* the detected profile is geodetic and the caller requested forceWebMercator
ReprojectionRequested(r) ==
    /\ run[r].profile = "geodetic"
    /\ "forceWebMercator" \in DOMAIN run[r].config
    /\ run[r].config.forceWebMercator = TRUE

\* C9: the Reproject stage runs if and only if the detected profile is
\* geodetic and the caller requested forceWebMercator.  When it runs it comes
\* before the Tile stage, the Optimize, Colorize and Tile stages work on files
\* derived from the reprojected file, its output is registered as an artifact
\* and the profile passed to tiling and written to the metadata is mercator;
\* when it does not run, no reprojection call is made and the stages work on
\* files derived from the original input.
C9_ReprojectIffGeodeticAndForced ==
    \A r \in Runs :
        LET c == run[r].calls
            failedInReproject ==
                run[r].currentStep = 5 /\ run[r].pc \in {"catch", "thrown"} IN
        /\ ReprojectionCalled(r) => ReprojectionRequested(r)
        /\ run[r].currentStep >= 5 => (ReprojectionCalled(r) <=> ReprojectionRequested(r))
        /\ \A i \in DOMAIN c :
             c[i].tool \in DownstreamTools =>
                 OriginOf(c, c[i].input) =
                     IF ReprojectionCalled(r) THEN reprojectedPath(run[r].filename)
                     ELSE run[r].inputPath
        /\ \A i, j \in DOMAIN c :
             (c[i].tool = "gdalwarp" /\ c[j].tool = "gdal2tiles.py") => i < j
        /\ (ReprojectionCalled(r) /\ ~failedInReproject) =>
               /\ run[r].processPath = reprojectedPath(run[r].filename)
               /\ run[r].processPath \in Range(run[r].intermediateFiles)
        /\ \A j \in DOMAIN c :
             (c[j].tool = "gdal2tiles.py" /\ ReprojectionCalled(r)) =>
                 c[j].profile = "mercator"
        /\ (DOMAIN run[r].metadata # {} /\ ReprojectionCalled(r)) =>
               run[r].metadata.tiles.profile = "mercator"

\* C9 witness: a run given forceWebMercator on a raster detected as EPSG:4326
\* has completed: gdalwarp was called, tiling followed, and the metadata
\* records mercator.
C9_Witness ==
    \E r \in Runs :
        /\ run[r].pc = "done"
        /\ ReprojectionCalled(r)
        /\ \E j \in DOMAIN run[r].calls : run[r].calls[j].tool = "gdal2tiles.py"
        /\ run[r].metadata.tiles.profile = "mercator"
        /\ run[r].config.maxZoom = 6

\* C9 second case: a run without reprojection has completed on the original
\* input.
C9_SkipReached ==
    \E r \in Runs :
        /\ run[r].pc = "done"
        /\ ~ReprojectionCalled(r)
        /\ Truthy(run[r].config, "forceWebMercator")

(***************************************************************************)
(* Properties of the server (specification SpecServer)                     *)
(***************************************************************************)
\* C2: a job is never in failed status while its own output directory still
\* exists: whenever processTiff has thrown, and whenever the status snapshot
\* of a background job says failed, the output directory of that job has
\* been removed.
C2_FailedImpliesOutputDirRemoved ==
    /\ \A r \in Runs :
         run[r].pc = "thrown" => ~pathExists(disk, run[r].outputDir)
    /\ \A id \in JobIds :
         (HasSnapshot(snap, id) /\ snap[id].status = "failed") =>
             ~pathExists(disk, job[id].outputDir)

ProgressOf(status) ==
    CASE status = "starting" -> 0
      [] status = "processing" -> 25
      [] status = "completed" -> 100
      [] status = "failed" -> 0

\* what every reading of the status machine shares: processing directly
\* follows starting, completed directly follows processing, no status is
\* written twice, each status has its progress value, and the persisted
\* snapshot is the last status written
StatusMachineCommon(id) ==
    LET h == hist[id] IN
    /\ \A i \in DOMAIN h :
         h[i].status = "processing" => (i > 1 /\ h[i - 1].status = "starting")
    /\ \A i \in DOMAIN h :
         h[i].status = "completed" => (i > 1 /\ h[i - 1].status = "processing")
    /\ \A i, j \in DOMAIN h : i # j => h[i].status # h[j].status
    /\ \A i \in DOMAIN h : h[i].progress = ProgressOf(h[i].status)
    /\ HasSnapshot(snap, id) <=> Len(h) > 0
    /\ Len(h) > 0 =>
         /\ snap[id].status = h[Len(h)].status
         /\ snap[id].progress = h[Len(h)].progress

\* C6 as claimed: the snapshots written for a job id follow starting(0%) ->
\* processing(25%) -> completed(100%) | failed(0%); the first snapshot written
\* is starting and failed is written only after starting.
C6_StatusMachineAsClaimed ==
    \A id \in JobIds :
        LET h == hist[id] IN
        /\ StatusMachineCommon(id)
        /\ Len(h) > 0 => h[1].status = "starting"
        /\ \A i \in DOMAIN h :
             h[i].status = "failed" => \E k \in 1..(i - 1) : h[k].status = "starting"

\* C6 amended: as claimed, except that when the write of the starting
\* snapshot itself fails, failed(0%) is the first and only snapshot written.
C6_StatusMachine ==
    \A id \in JobIds :
        LET h == hist[id]
            startingWriteFailed == job[id].caughtAt = "starting" IN
        /\ StatusMachineCommon(id)
        /\ Len(h) > 0 =>
             \/ h[1].status = "starting"
             \/ h[1].status = "failed" /\ Len(h) = 1 /\ startingWriteFailed
        /\ h # <<>> /\ h[1].status = "starting" => ~startingWriteFailed
        /\ \A i \in DOMAIN h :
             h[i].status = "failed" =>
                 \/ \E k \in 1..(i - 1) : h[k].status = "starting"
                 \/ i = 1 /\ startingWriteFailed

\* C6 witness: a job went through starting, processing and completed.
C6_Witness ==
    \E id \in JobIds :
        /\ Len(hist[id]) = 3
        /\ hist[id][1].status = "starting"
        /\ hist[id][2].status = "processing"
        /\ hist[id][3] = [status |-> "completed", progress |-> 100]
        /\ snap[id].status = "completed"

C7_NeverIssuedReached ==
    lookup.count > 0 /\ lookup.pc = "idle" /\ lookup.id = 0 /\ lookup.response.code = 404

CompletionFields == {"outputDir", "metadata", "tileUrl", "completedAt"}
FailureFields == {"error", "failedAt"}

\* C8: every snapshot carries status, progress, message and timestamp; a
\* completed snapshot also carries outputDir, metadata and tileUrl; a failed
\* snapshot carries a non-empty error text; a starting or processing snapshot
\* carries no completion or failure field.
C8_SnapshotFields ==
    \A id \in LookupIds :
        HasSnapshot(snap, id) =>
            LET s == snap[id] IN
            /\ {"status", "progress", "message", "timestamp"} \subseteq DOMAIN s
            /\ s.status \in {"starting", "processing", "completed", "failed"}
            /\ s.message # <<>>
            /\ s.status = "completed" =>
                   /\ {"outputDir", "metadata", "tileUrl"} \subseteq DOMAIN s
                   /\ s.outputDir = job[id].outputDir
                   /\ DOMAIN s \cap FailureFields = {}
            /\ s.status = "failed" =>
                   /\ "error" \in DOMAIN s
                   /\ s.error # <<>>
                   /\ DOMAIN s \cap CompletionFields = {}
            /\ s.status \in {"starting", "processing"} =>
                   DOMAIN s \cap (CompletionFields \cup FailureFields) = {}

\* C8 witness: a completed snapshot that overwrote the starting and the
\* processing snapshot of its job.
C8_Witness ==
    \E id \in JobIds :
        /\ HasSnapshot(snap, id)
        /\ snap[id].status = "completed"
        /\ Len(hist[id]) = 3
        /\ "tileUrl" \in DOMAIN snap[id]

\* C8 second case: a failed snapshot written for a child that printed nothing
\* on stderr.
C8_FailedReached ==
    \E id \in JobIds :
        /\ HasSnapshot(snap, id)
        /\ snap[id].status = "failed"
        /\ snap[id].error = <<"Unknown error">>

\* the engine calls of a successful orchestrator run (validation, analysis,
\* normalization and colorize, tiling)
OrchestratorTools ==
    {"gdalinfo -json", "gdalinfo", "gdal_translate -of VRT", "gdalinfo -stats",
     "gdal_calc.py", "gdal_translate -scale", "gdaldem color-relief", "gdal2tiles.py"}

\* C10: a background job is an orchestrator invocation reported through the
\* status tracker: a job whose snapshot is completed has made the engine
\* calls of the orchestrator's stage sequence and tiled the colorized raster,
\* and the failed snapshot of a job whose tiling exited non-zero carries the
\* exit code that the error of processTiff carries for that failure.
C10_JobIsOrchestratorInvocation ==
    \A id \in JobIds :
        HasSnapshot(snap, id) =>
            LET c == job[id].calls IN
            /\ snap[id].status = "completed" =>
                   /\ OrchestratorTools \subseteq {c[i].tool : i \in DOMAIN c}
                   /\ \A i \in DOMAIN c :
                        c[i].tool = "gdal2tiles.py" =>
                            c[i].input = finalColorized(job[id].filename)
            /\ (snap[id].status = "failed" /\ job[id].caughtAt = "") =>
                   snap[id].message[Len(snap[id].message)]
                       = TileErrorMessage(job[id].code)[2]

(***************************************************************************)
(* Properties of the statistics analysis (specification SpecStats)         *)
(***************************************************************************)
\* the analysis has produced its statistics
Analyzed == calc.pc \in {"percentiles", "table"}

\* the four statistics are numbers
Numbers(stats) == NaN \notin {stats.min, stats.max, stats.mean, stats.stdDev}

Ordered(stats) ==
    /\ stats.percentile95 <= stats.percentile98
    /\ stats.percentile98 <= stats.percentile99
    /\ stats.percentile99 <= stats.percentile99_9

\* C18 as claimed: for every four numbers with max > 100 and mean < 1,
\* a negative stdDev included, p95 = min(max * 0.01, mean + 3 * stdDev) and
\* p95 <= p98 <= p99 <= p99.9
C18_TailPercentilesAsClaimed ==
    (Analyzed /\ Numbers(calc.stats)
        /\ calc.stats.max > 100000 /\ calc.stats.mean < 1000) =>
        /\ calc.stats.percentile95 =
               MathMin(calc.stats.max * 10,
                       calc.stats.mean * 1000 + 3000 * calc.stats.stdDev)
        /\ Ordered(calc.stats)

\* C18: for four numbers with max > 100 and mean < 1,
\* p95 = min(max * 0.01, mean + 3 * stdDev); the order p95 <= p98 <= p99 <=
\* p99.9 holds when stdDev is not negative
C18_TailPercentiles ==
    (Analyzed /\ Numbers(calc.stats)
        /\ calc.stats.max > 100000 /\ calc.stats.mean < 1000) =>
        /\ calc.stats.percentile95 =
               MathMin(calc.stats.max * 10,
                       calc.stats.mean * 1000 + 3000 * calc.stats.stdDev)
        /\ calc.stats.stdDev >= 0 => Ordered(calc.stats)

\* a tail-pattern analysis with a positive deviation whose thresholds are
\* taken from the deviation arm and increase strictly
C18_Witness ==
    /\ Analyzed
    /\ Numbers(calc.stats)
    /\ calc.stats.max > 100000 /\ calc.stats.mean < 1000
    /\ calc.stats.stdDev > 0
    /\ calc.stats.percentile95 = calc.stats.mean * 1000 + 3000 * calc.stats.stdDev
    /\ calc.stats.percentile95 < calc.stats.percentile98
    /\ calc.stats.percentile99 < calc.stats.percentile99_9

\* C19 as claimed: for every four numbers outside the tail pattern,
\* p95 = min + (max - min) * 0.95 and p95 <= p98 <= p99 <= p99.9
C19_LinearPercentilesAsClaimed ==
    (Analyzed /\ Numbers(calc.stats)
        /\ ~(calc.stats.max > 100000 /\ calc.stats.mean < 1000)) =>
        /\ calc.stats.percentile95 =
               calc.stats.min * 1000 + (calc.stats.max - calc.stats.min) * 950
        /\ Ordered(calc.stats)

\* C19: for four numbers outside the tail pattern,
\* p95 = min + (max - min) * 0.95; the order p95 <= p98 <= p99 <= p99.9
\* holds when min <= max
C19_LinearPercentiles ==
    (Analyzed /\ Numbers(calc.stats)
        /\ ~(calc.stats.max > 100000 /\ calc.stats.mean < 1000)) =>
        /\ calc.stats.percentile95 =
               calc.stats.min * 1000 + (calc.stats.max - calc.stats.min) * 950
        /\ calc.stats.min <= calc.stats.max => Ordered(calc.stats)

\* a standard analysis of a raster with a negative minimum and strictly
\* increasing thresholds
C19_Witness ==
    /\ Analyzed
    /\ Numbers(calc.stats)
    /\ ~(calc.stats.max > 100000 /\ calc.stats.mean < 1000)
    /\ calc.stats.min < 0 /\ calc.stats.min < calc.stats.max
    /\ calc.stats.percentile95 < calc.stats.percentile98
    /\ calc.stats.percentile99 < calc.stats.percentile99_9

\* C20: every color table written has stop values that never decrease, from 0
\* to 255, and every stop value and R, G, B, A channel lies in 0..255,
\* whatever the statistics are
C20_ColorRampWellFormed ==
    calc.pc = "table" =>
        LET stops == calc.colorTable.stops IN
        /\ Len(stops) > 0
        /\ stops[1][1] = 0
        /\ stops[Len(stops)][1] = 255
        /\ \A i \in 1..(Len(stops) - 1) : stops[i][1] <= stops[i + 1][1]
        /\ \A i \in DOMAIN stops :
              Len(stops[i]) = 5 /\ \A k \in 1..5 : stops[i][k] \in 0..255

\* a color table written for statistics whose 95th percentile lies above 255
C20_Witness ==
    /\ calc.pc = "table"
    /\ calc.colorTable.designedFor > 255000000
    /\ Len(calc.colorTable.stops) = 13

(***************************************************************************)
(* Properties of concurrent runs (specification SpecConcurrent)            *)
(***************************************************************************)
\* runs r and o are in flight on different input files
DifferentInputs(r, o) ==
    /\ r # o
    /\ run[r].pc # "idle" /\ run[o].pc # "idle"
    /\ run[r].inputPath # run[o].inputPath

\* C11: jobs that run concurrently on different input files own disjoint
\* paths, so a job that has written its scaled raster and its color table
\* and is about to run color-relief still finds both, whatever the other
\* job did in between
C11_NoCrossJobInterference ==
    \A r \in Runs, o \in Runs :
        (DifferentInputs(r, o) /\ run[r].pc = "col_relief") =>
            /\ pathExists(disk, tmpScaled(run[r].filename))
            /\ pathExists(disk, colorTablePath)

(***************************************************************************)
(* Properties of the engine calls (specification Spec)                     *)
(***************************************************************************)
\* the i-th engine call of run r ended its stage: it is the last call made
\* and the run is on its failure path with an error
StageFailedAt(r, i) ==
    /\ i = Len(run[r].calls)
    /\ run[r].pc \in {"catch", "thrown"}
    /\ run[r].error # NoError

\* C12 as claimed: every engine call that closes with anything but exit
\* code 0, a signal included, fails its stage and no later step runs
C12_NonZeroExitFailsStageAsClaimed ==
    \A r \in Runs : \A i \in DOMAIN run[r].calls :
        run[r].calls[i].code # 0 => StageFailedAt(r, i)

\* C12: every engine call other than the version query of createMetadata
\* that closes with anything but exit code 0, a signal included, fails its
\* stage and no later step runs
C12_NonZeroExitFailsStage ==
    \A r \in Runs : \A i \in DOMAIN run[r].calls :
        (run[r].calls[i].code # 0 /\ run[r].calls[i].tool # "gdalinfo --version")
            => StageFailedAt(r, i)

\* a run whose tile generation was ended by a signal and that was rethrown
C12_Witness ==
    /\ run["A"].pc = "thrown"
    /\ Len(run["A"].calls) > 0
    /\ run["A"].calls[Len(run["A"].calls)].tool = "gdal2tiles.py"
    /\ run["A"].calls[Len(run["A"].calls)].code = KilledBySignal
    /\ run["A"].raised = TileErrorMessage(KilledBySignal)

\* a run that went on to success although the version query exited with 1
C12_VersionQueryTolerated ==
    /\ run["A"].pc = "done"
    /\ \E i \in DOMAIN run["A"].calls :
         run["A"].calls[i].tool = "gdalinfo --version" /\ run["A"].calls[i].code = 1
    /\ run["A"].metadata.processing.gdal = "unknown"

(***************************************************************************)
(* Properties of cleanup and verification (specification Spec)             *)
(***************************************************************************)
\* C13: once the Cleanup stage of a run has passed (the run is verifying or
\* has returned success), the colorized raster <name>_8bit_color.tif still
\* exists on disk and is the registered retain artifact
C13_RetainSurvivesSuccess ==
    \A r \in Runs :
        run[r].pc \in {"verify", "done"} =>
            /\ run[r].colorizedPath = finalColorized(run[r].filename)
            /\ Includes(run[r].intermediateFiles[Len(run[r].intermediateFiles)],
                        "8bit_color")
            /\ pathExists(disk, run[r].colorizedPath)

\* a successful run on sample.tif whose Cleanup removed the optimized
\* intermediate and kept the colorized raster
C13_Witness ==
    /\ run["A"].pc = "done"
    /\ run["A"].filename = <<"sample">>
    /\ run["A"].optimizedPath = vrtPath(<<"sample">>)
    /\ ~pathExists(disk, vrtPath(<<"sample">>))
    /\ pathExists(disk, finalColorized(<<"sample">>))

\* C14: a failed file removal is never the reason a run is reported as
\* failed: no run is on its failure path with the error of a removal (of the
\* Cleanup stage, or of the temporary log raster, scaled raster and color
\* table after colorize)
C14_RemovalNeverFailsRun ==
    \A r \in Runs :
        run[r].pc \in {"catch", "thrown"} =>
            run[r].error # ErrorOf("remove failed", "temporary")

(***************************************************************************)
(* Properties of verification (specifications SpecConcurrent and Spec)     *)
(***************************************************************************)
\* C15: the Verify stage never makes a run fail: no run is on its failure
\* path from step 11, every returned result carries a verification with its
\* four fields, and the verification of an output directory that does not
\* exist is zeroed
C15_VerifyNeverFails ==
    \A r \in Runs :
        /\ run[r].pc \in {"catch", "thrown"} => run[r].currentStep # 11
        /\ run[r].pc = "done" =>
              LET v == run[r].result.verification IN
              /\ run[r].result.success
              /\ DOMAIN v = {"outputExists", "metadataExists", "tileCount", "zoomLevels"}
              /\ ~v.outputExists =>
                    ~v.metadataExists /\ v.tileCount = 0 /\ v.zoomLevels = <<>>

\* a run that returned success although the scan of its output directory
\* threw: the error was logged as a warning
C15_Witness ==
    \E r \in Runs :
        /\ run[r].pc = "done"
        /\ "Could not verify tile structure" \in run[r].log
        /\ run[r].result.verification.outputExists

\* a run that returned success with a zeroed verification: the other run
\* removed the output directory before the Verify stage
C15_ZeroedReached ==
    \E r \in Runs :
        /\ run[r].pc = "done"
        /\ "Output directory not found" \in run[r].log
        /\ ~run[r].result.verification.outputExists

\* the image files present at depth zoom/x/ under the zoom directories that
\* zoomLevels lists, read off the paths on disk
ImageFilesUnder(d, outputDir, zoomLevels) ==
    {q \in d :
        /\ IsPrefix(outputDir \o <<"/">>, q)
        /\ Len(q) = Len(outputDir) + 7
        /\ \E i \in DOMAIN zoomLevels : q[Len(outputDir) + 2] = ToString(zoomLevels[i])
        /\ q[Len(outputDir) + 3] = "/"
        /\ q[Len(outputDir) + 5] = "/"
        /\ q[Len(q)] = ".png"}

C17_PrepareLeavesEmptyDirectory ==
    \A r \in Runs :
        run[r].pc = "analyze" =>
            /\ pathExists(disk, run[r].outputDir)
            /\ readdir(disk, run[r].outputDir) = {}

(***************************************************************************)
(* Properties of the stages (C21 to C30)                                   *)
(***************************************************************************)
\* the gdal2tiles.py calls of run r
TilingCalls(r) ==
    {i \in DOMAIN run[r].calls : run[r].calls[i].tool = "gdal2tiles.py"}

\* C21: when the caller supplies a profile (options.profile), that profile
\* is the one passed to gdal2tiles.py and the one recorded in the metadata;
\* detection decides the profile only when the caller supplied none.
C21_CallerProfileHonoured ==
    \A r \in Runs :
        "profile" \in DOMAIN run[r].options =>
            /\ \A i \in TilingCalls(r) :
                   run[r].calls[i].profile = run[r].options.profile
            /\ run[r].metadata # <<>> =>
                   run[r].metadata.tiles.profile = run[r].options.profile

\* run r has left the Validate stage
Validated(r) == run[r].pc \notin {"idle", "validate"}

\* run r failed in the Validate stage
ValidateFailed(r) == run[r].pc \in {"catch", "thrown"} /\ run[r].currentStep = 1

\* a run that failed in Validate has executed no later stage
NoLaterStage(r) ==
    /\ run[r].calls = <<>>
    /\ run[r].intermediateFiles = <<>>
    /\ run[r].tiffInfo = <<>>
    /\ "Could not clean output directory" \notin run[r].log

\* the extension of the input only warns: the run proceeds with the warning
ExtensionOnlyWarns(r) ==
    (pathExists(disk, run[r].inputPath) /\ ~ValidateFailed(r)) =>
        ExtensionWarning(run[r].inputPath) \subseteq run[r].log

\* C22 as stated: Validate fails the run, with no later stage executed,
\* exactly when the input path does not exist; an existing input with an
\* unexpected extension only produces a warning and the run proceeds.
C22_ValidateAsClaimed ==
    \A r \in Runs :
        Validated(r) =>
            /\ ValidateFailed(r) <=> ~pathExists(disk, run[r].inputPath)
            /\ ValidateFailed(r) => NoLaterStage(r)
            /\ ExtensionOnlyWarns(r)

\* C22, amended: Validate fails the run, with no later stage executed, when
\* the input path does not exist, and otherwise only when fs.stat of the
\* existing input rejects; the extension of the input never fails the run.
C22_Validate ==
    \A r \in Runs :
        Validated(r) =>
            /\ ~pathExists(disk, run[r].inputPath) =>
                   ValidateFailed(r) /\ run[r].error[1] = "Input file does not exist: "
            /\ (ValidateFailed(r) /\ pathExists(disk, run[r].inputPath)) =>
                   run[r].error[1] = "stat failed"
            /\ ValidateFailed(r) => NoLaterStage(r)
            /\ ExtensionOnlyWarns(r)

\* an existing input with the extension .dat has passed Validate with the
\* warning and is about to prepare its output directory
C22_Witness ==
    /\ run["A"].pc = "prepare"
    /\ run["A"].filename = OddInput
    /\ "Unexpected file extension" \in run["A"].log

\* a missing input has failed Validate
C22_MissingReached ==
    /\ ValidateFailed("A")
    /\ ~pathExists(disk, run["A"].inputPath)

\* the positions of a run in the body of processTiff, in program order, and
\* the step number of the stage each position belongs to
StageOrder ==
    <<"validate", "prepare", "analyze", "detect", "reproject", "optimize",
      "col_stats", "col_log", "col_scale", "col_table", "col_relief", "col_rm",
      "tiles", "metadata", "cleanup", "verify", "done">>

StepOf ==
    [validate |-> 1, prepare |-> 2, analyze |-> 3, detect |-> 4, reproject |-> 5,
     optimize |-> 6, col_stats |-> 7, col_log |-> 7, col_scale |-> 7,
     col_table |-> 7, col_relief |-> 7, col_rm |-> 7, tiles |-> 8,
     metadata |-> 9, cleanup |-> 10, verify |-> 11]

PositionOf(pc) == CHOOSE i \in DOMAIN StageOrder : StageOrder[i] = pc

\* one step of run r respects the stage order
InOrder(r) ==
    LET a == run[r].pc
        b == run'[r].pc
    IN \/ run'[r] = run[r]
       \* the stage at `a` finished successfully and the next position is taken
       \/ /\ a \in DOMAIN StepOf
          /\ b = StageOrder[PositionOf(a) + 1]
          /\ run'[r].currentStep = StepOf[a]
          /\ run'[r].error = NoError
       \* the stage at `a` failed: the failure path is entered
       \/ /\ a \in DOMAIN StepOf
          /\ b = "catch"
          /\ run'[r].currentStep = StepOf[a]
       \* the failure path ends by rethrowing; no stage runs on it
       \/ /\ a = "catch"
          /\ b = "thrown"
          /\ run'[r].currentStep = run[r].currentStep
          /\ run'[r].calls = run[r].calls
       \* a new invocation starts with Validate
       \/ /\ a \in {"idle", "done", "thrown"}
          /\ b = "validate"
          /\ run'[r].currentStep = 0

\* C23: every run executes its stages strictly sequentially in the order
\* Validate, PrepareOutput, Analyze, DetectProjection, Reproject or skip,
\* Optimize, NormalizeAndColorize, Tile, EmitMetadata, Cleanup, Verify: a
\* stage starts only after the previous one finished successfully, no stage
\* runs twice or after a failed stage, and Done is reached only after Verify.
C23_StagesInOrder == [][\A r \in Runs : InOrder(r)]_vars

\* a run that returned after all eleven steps, with a reprojection
C23_Witness ==
    /\ run["A"].pc = "done"
    /\ run["A"].currentStep = totalSteps
    /\ [i \in DOMAIN run["A"].calls |-> run["A"].calls[i].tool] =
           <<"gdalinfo -json", "gdalinfo", "gdalwarp", "gdal_translate -of VRT",
             "gdalinfo -stats", "gdal_calc.py", "gdal_translate -scale",
             "gdaldem color-relief", "gdal2tiles.py", "gdalinfo --version">>

\* a run that skipped the reprojection and failed in the Tile stage
C23_FailedReached ==
    /\ run["A"].pc = "thrown"
    /\ run["A"].currentStep = 8
    /\ Len(run["A"].calls) = 8

\* nothing lies below outputDir
NoLeftovers(d, outputDir) == {q \in d : IsPrefix(outputDir \o <<"/">>, q)} = {}

\* C24: stale tiles never leak into a new run: whenever the tiling engine is
\* invoked, by processTiff and by a background job, the output directory
\* contains no file left by an earlier run for the same tileset name.
C24_NoStaleTilesAtTiling ==
    /\ \A r \in Runs :
           run[r].pc = "tiles" => NoLeftovers(disk, run[r].outputDir)
    /\ \A id \in JobIds :
           job[id].pc = "running" => NoLeftovers(disk, job[id].outputDir)

\* the output directory of a run and everything below it
OutputTree(d, outputDir) == {q \in d : IsPrefix(outputDir, q)}

\* run r has just aborted with a validation failure or with a parse failure
\* of the Analyze stage
AbortedEarly(r) ==
    /\ run[r].pc = "catch"
    /\ \/ run[r].currentStep = 1
       \/ run[r].error[1] = "Failed to parse gdalinfo output: "

\* C25: validation failures and parse failures abort the run before any
\* output is produced: at the moment of the abort the run has neither created
\* nor cleared the output directory (the directory is absent, or still holds
\* the tileset the run found) and has written no intermediate file.
C25_EarlyAbortBeforeOutput ==
    \A r \in Runs :
        AbortedEarly(r) =>
            /\ OutputTree(disk, run[r].outputDir) \in {{}, StaleTileset}
            /\ run[r].intermediateFiles = <<>>
            /\ \A p \in {reprojectedPath(run[r].filename), vrtPath(run[r].filename),
                         tmpLog(run[r].filename), tmpScaled(run[r].filename),
                         finalColorized(run[r].filename), colorTablePath} :
                   ~pathExists(disk, p)

\* runs r and o are different invocations started on the same input filename
SameInput(r, o) ==
    /\ r # o
    /\ run[r].pc # "idle" /\ run[o].pc # "idle"
    /\ run[r].filename = run[o].filename

\* run r returned success after a tiling call that exited 0, and none of the
\* tiles that call wrote is on disk
SucceededWithoutTiles(r) ==
    /\ run[r].pc = "done"
    /\ run[r].result.success
    /\ \E i \in TilingCalls(r) : run[r].calls[i].code = 0
    /\ tilePaths(run[r].outputDir) \cap disk = {}

\* C26: two concurrent jobs given the same input filename are not
\* serialized and use the same output directory and the same intermediate
\* paths; a job that ends as successful with its tiles deleted has lost them
\* to the PrepareOutput clearing or the failure-path removal of another job
\* on the same filename (and such an interleaving exists: C26_Witness).
C26_SameFilenameRace ==
    \A r \in Runs :
        /\ \A o \in Runs :
               SameInput(r, o) =>
                   /\ run[r].outputDir = run[o].outputDir
                   /\ vrtPath(run[r].filename) = vrtPath(run[o].filename)
                   /\ tmpScaled(run[r].filename) = tmpScaled(run[o].filename)
        /\ SucceededWithoutTiles(r) =>
               \E o \in Runs :
                   /\ SameInput(r, o)
                   /\ run[o].currentStep >= 2 \/ run[o].pc = "thrown"

\* run A ended as successful although run B, given the same filename,
\* cleared the shared output directory after A had written its tiles
C26_Witness ==
    /\ SucceededWithoutTiles("A")
    /\ SameInput("A", "B")
    /\ pathExists(disk, run["A"].outputDir)
    /\ run["B"].pc \notin {"catch", "thrown"}

\* run A ended as successful although the failure path of run B removed
\* the shared output directory with A's tiles
C26_RemovedReached ==
    /\ SucceededWithoutTiles("A")
    /\ SameInput("A", "B")
    /\ run["B"].pc = "thrown"
    /\ ~pathExists(disk, run["A"].outputDir)
    /\ "Output directory not found" \in run["A"].log

\* the NormalizeAndColorize stage of run r has ended, normally or with an
\* error, after it wrote its color table and called color-relief
ColorizeEnded(r) ==
    /\ \E i \in DOMAIN run[r].calls : run[r].calls[i].tool = "gdaldem color-relief"
    /\ \/ run[r].pc \in {"tiles", "metadata", "cleanup", "verify", "done"}
       \/ run[r].pc \in {"catch", "thrown"}

\* C27: the color table file written for a job is deleted after that job's
\* colorize call completes: whenever the NormalizeAndColorize stage has
\* ended, normally or with an error, no color table file written by it
\* remains on disk.
C27_ColorTableDeleted ==
    \A r \in Runs : ColorizeEnded(r) => ~pathExists(disk, colorTablePath)

\* a text that carries neither a geodetic nor a mercator marker
Unrecognized(text) ==
    text \cap {"EPSG:4326", "WGS 84", "EPSG:3857", "Web Mercator"} = {}

\* C28: DetectProjection is total and permissive: whenever the engine call
\* succeeds the result is geodetic or mercator, a text that matches neither
\* the geodetic nor the mercator markers yields geodetic, and an
\* unrecognized coordinate system does not stop the analysis.
C28_DetectionTotal ==
    calc.pc \notin {"idle", "detect"} =>
        /\ calc.profile \in {"geodetic", "mercator"}
        /\ Unrecognized(calc.srs) => calc.profile = "geodetic"

\* a text without any marker has been classified as geodetic and the
\* analysis went on to the color table
C28_Witness ==
    /\ calc.pc = "table"
    /\ Unrecognized(calc.srs)
    /\ calc.profile = "geodetic"

\* C29: if any of min, max, mean or stdDev cannot be parsed from the text of
\* gdalinfo -stats, the default 0, 255, 128 or 50 is used for it, and the
\* statistics handed to the percentile derivation are always four numbers,
\* never a not-a-number value.
C29_StatisticsAreNumbers ==
    Analyzed =>
        /\ ~calc.output.minMatch.matched => calc.stats.min = 0
        /\ ~calc.output.maxMatch.matched => calc.stats.max = 255000
        /\ ~calc.output.meanMatch.matched => calc.stats.mean = 128000
        /\ ~calc.output.stdDevMatch.matched => calc.stats.stdDev = 50000
        /\ Numbers(calc.stats)

\* the subdirectories of outputDir whose names are non-negative integers
NumericDirs(d, outputDir) ==
    {item \in readdir(d, outputDir) :
        IsDigits(item) /\ isDirectory(d, join(outputDir, item))}

\* the image files at depth zoom/x/ under the directories `names`
ImageFilesIn(d, outputDir, names) ==
    {q \in d :
        /\ IsPrefix(outputDir \o <<"/">>, q)
        /\ Len(q) = Len(outputDir) + 7
        /\ <<q[Len(outputDir) + 2]>> \in names
        /\ q[Len(outputDir) + 3] = "/"
        /\ q[Len(outputDir) + 5] = "/"
        /\ q[Len(q)] = ".png"}

\* C30: after a scan that was not cut short by an error, zoomLevels lists
\* every subdirectory of the output directory whose name is a non-negative
\* integer exactly once, in strictly ascending order, and the tiles of each
\* such directory are counted exactly once, also for names with leading
\* zeros (directories '01' and '1' side by side).
C30_ZoomLevelsExactlyOnce ==
    \A r \in Runs :
        (/\ run[r].pc = "done"
         /\ run[r].result.verification.outputExists
         /\ "Could not verify tile structure" \notin run[r].log) =>
            LET v == run[r].result.verification
                dirs == NumericDirs(disk, run[r].outputDir)
            IN /\ Len(v.zoomLevels) = Cardinality(dirs)
               /\ Range(v.zoomLevels) = {NumberOf[name[1]] : name \in dirs}
               /\ \A i \in DOMAIN v.zoomLevels : \A j \in DOMAIN v.zoomLevels :
                      i < j => v.zoomLevels[i] < v.zoomLevels[j]
               /\ v.tileCount =
                      Cardinality(ImageFilesIn(disk, run[r].outputDir, dirs))

(***************************************************************************)
(* Properties of the progress counter, the background jobs and the         *)
(* artifacts (C31 to C40)                                                  *)
(***************************************************************************)
\* the value of the step counter while a run waits at position pc: the
\* number of the stages begun so far
StepsBegun(pc) ==
    IF pc \in {"col_log", "col_scale", "col_table", "col_relief", "col_rm"}
    THEN StepOf[pc] ELSE StepOf[pc] - 1

\* C31: the step counter is incremented exactly once per stage, whether
\* Reproject runs or is skipped: a run that waits at stage k has counted the
\* k - 1 stages before it, a run that failed stopped at a step between 1 and
\* 11, the counter never exceeds 11, and a run that returned ends at 11.
C31_StepNumbering ==
    \A r \in Runs :
        /\ run[r].currentStep \in 0..totalSteps
        /\ run[r].pc \in DOMAIN StepOf => run[r].currentStep = StepsBegun(run[r].pc)
        /\ run[r].pc \in {"catch", "thrown"} => run[r].currentStep \in 1..totalSteps
        /\ run[r].pc = "done" => run[r].currentStep = totalSteps

\* a run that skipped the reprojection and returned after step 11
C31_Witness ==
    /\ run["A"].pc = "done"
    /\ "Skipping reprojection" \in run["A"].log
    /\ run["A"].currentStep = totalSteps
    /\ ~\E i \in DOMAIN run["A"].calls : run["A"].calls[i].tool = "gdalwarp"

\* the persisted snapshot of job id is terminal
TerminalSnapshot(id) ==
    HasSnapshot(snap, id) /\ snap[id].status \in {"completed", "failed"}

\* C32: every background job for which a processing id was returned and
\* whose child process closes or fails to start eventually has a terminal
\* snapshot (completed or failed), also when writing the metadata file or a
\* status snapshot fails inside the close handler: no job whose child was
\* spawned stays in processing forever.
C32_EveryJobTerminates ==
    \A id \in JobIds : (job[id].pc = "running") ~> TerminalSnapshot(id)

\* a step that serves a status lookup for id, issued after the response of
\* POST /api/process-tiff carried that id
LookupAfterResponse(id) ==
    /\ id <= posted
    /\ lookup'.count = lookup.count + 1
    /\ lookup'.id = id

\* C33: when POST /api/process-tiff returns a processing id, a snapshot for
\* that id already exists: a status lookup issued after the response for that
\* id finds the snapshot and never reports NotFound.
C33_SnapshotBeforeResponse ==
    [][\A id \in JobIds :
           LookupAfterResponse(id) =>
               /\ HasSnapshot(snap, id)
               /\ lookup'.response # NotFoundResponse(id)]_vars

\* C34: a status lookup that runs concurrently with a snapshot overwrite for
\* the same job id returns the previous or the new snapshot in full: its
\* answer carries a status that was written for the id, and it is never a
\* server error.
C34_LookupSeesWholeSnapshot ==
    (lookup.response # <<>> /\ lookup.id \in JobIds /\ lookup.written) =>
        /\ lookup.response.code = 200
        /\ [status |-> lookup.response.body.status,
            progress |-> lookup.response.body.progress] \in Range(hist[lookup.id])

\* the files in the data directory that were not there at the start
CreatedInDataDir(d) ==
    {p \in d : IsPrefix(dataDir, p)} \ {InputPathOf(f) : f \in ExistingInputs}

\* C35: after a run that failed inside the Reproject, Optimize or
\* NormalizeAndColorize stage, no file the run created in the data directory
\* remains on disk: the temporary rasters, the color table and the partly
\* written output of the failed step are removed by the failure path (stated
\* for the runs in which no removal of the failure path reported an error,
\* for an input whose name does not contain the text '8bit_color').
C35_EarlyFailureLeavesDataDirClean ==
    \A r \in Runs :
        (/\ run[r].pc = "thrown"
         /\ run[r].currentStep \in 5..7
         /\ NoRemovalError(r)
         /\ ~Includes(run[r].filename, "8bit_color")) =>
            CreatedInDataDir(disk) = {}

\* C36: the retention of an artifact depends only on the stage that produced
\* it, never on the input's name: for every input filename, also one that
\* contains the text '8bit_color', once Cleanup has run the reprojected
\* raster and the optimized intermediate are removed and only the colorized
\* raster is kept (stated for the runs in which no removal reported an error).
C36_RetentionByStageOnly ==
    \A r \in Runs :
        (run[r].pc \in {"verify", "done"} /\ NoRemovalError(r)) =>
            \A i \in DOMAIN run[r].intermediateFiles :
                LET f == run[r].intermediateFiles[i] IN
                pathExists(disk, f) <=> f = run[r].colorizedPath

\* run r is in a processTiff invocation whose input file does not exist and
\* which has not passed Validate
FailingAtValidate(r) ==
    /\ run[r].pc \in {"validate", "catch"}
    /\ run[r].currentStep <= 1
    /\ ~pathExists(disk, run[r].inputPath)

\* C37: a run that fails at Validate because the input file does not exist
\* leaves an already existing output directory of the same tileset name,
\* with the tiles and metadata of an earlier successful run, unchanged: no
\* step of such a run changes anything at or below its output directory.
C37_ValidateFailureKeepsTileset ==
    [][\A r \in Runs :
           FailingAtValidate(r) =>
               OutputTree(disk', run[r].outputDir) = OutputTree(disk, run[r].outputDir)]_vars

\* a step that answers GET /api/tilesets with a list
ListingStep ==
    /\ lookup'.count = lookup.count + 1
    /\ "code" \in DOMAIN lookup'.response
    /\ lookup'.response.code = 200
    /\ "tilesets" \in DOMAIN lookup'.response.body

\* job id has a snapshot that is not completed
Unfinished(id) ==
    HasSnapshot(snap, id) /\ snap[id].status \in {"starting", "processing", "failed"}

\* C38: GET /api/tilesets lists only tilesets whose generation has completed:
\* the output directory of a background job that is still in starting or
\* processing, or that has failed, is not in the list.
C38_OnlyCompletedTilesetsListed ==
    [][ListingStep =>
          \A id \in JobIds :
              Unfinished(id) =>
                  ~\E t \in lookup'.response.body.tilesets : t.id = job[id].filename]_vars

\* the text carries a Web-Mercator marker
MercatorMarked(text) == text \cap {"EPSG:3857", "Web Mercator"} # {}

\* C39: coordinate-system text that carries a Web-Mercator marker is
\* classified as mercator, also when the same text contains 'WGS 84' or
\* 'EPSG:4326' (as in 'WGS 84 / Pseudo-Mercator'), and a raster classified
\* from such text does not meet the condition of the Reproject stage under
\* any options, forceWebMercator included.
C39_MercatorMarkerWins ==
    (calc.pc \notin {"idle", "detect"} /\ MercatorMarked(calc.srs)) =>
        /\ calc.profile = "mercator"
        /\ \A o \in OptionSets :
               ~NeedsReprojection(calc.profile, Merge(defaultOptions, o))

\* the terminal statuses written for job id so far
TerminalWrites(h) == {i \in DOMAIN h : h[i].status \in {"completed", "failed"}}

\* C40: terminal status is absorbing: for each job id at most one terminal
\* snapshot (completed or failed) is written, and once the snapshot is
\* completed or failed no later step writes the snapshot of that id again.
C40_TerminalAbsorbing ==
    [][\A id \in JobIds :
           /\ Cardinality(TerminalWrites(hist'[id])) <= 1
           /\ TerminalSnapshot(id) => (snap'[id] = snap[id] /\ hist'[id] = hist[id])]_vars

\* a job has written completed as its one terminal snapshot, and the list
\* of tilesets has been answered with its tileset
C40_Witness ==
    /\ job[1].pc = "end"
    /\ Cardinality(TerminalWrites(hist[1])) = 1
    /\ Len(hist[1]) = 3
    /\ snap[1].status = "completed"
    /\ lookup.count > 0
    /\ lookup.response = TilesetsResponse(disk)
    /\ lookup.response.body.count = 1

\* a job ended in the catch block of processTiffAsync with failed as its
\* only terminal snapshot
C40_CaughtReached ==
    /\ job[1].pc = "end"
    /\ job[1].caughtAt # ""
    /\ Cardinality(TerminalWrites(hist[1])) = 1
    /\ snap[1].status = "failed"

====
